---- MODULE Spec2Model ----
(***************************************************************************)
(* Read-through cache coordinator of godilite/qa-server:                   *)
(* FindAndCache (probe, hit + background refresh, miss + singleflight      *)
(* coalescing + asynchronous write-back) and the TTL jitter.               *)
(***************************************************************************)
EXTENDS Integers, FiniteSets, Sequences, TLC

\* ---------------------------------------------------------------- bounds
\* Number of concurrent FindAndCache invocations (request handlers).
NumCallers == 2

Callers == 1..NumCallers

\* Cache keys the callers may ask for.
Keys == {"k1", "k2"}

\* Values a compute function may produce; OldValue is what the store may
\* hold before the first call.
Values == {"v1", "v2"}
OldValue == "v0"
Absent == "absent"
ZeroValue == "zero"

\* Value types T the generic FindAndCache is instantiated with.
Types == {"float64", "PeriodChange"}

\* ---------------------------------------------------------------- errors
NoErr == "nil"
ErrCompute == "E"
\* ctx.Err() of a caller's context that is done. FindAndCache never looks at
\* which of context.Canceled and context.DeadlineExceeded it is.
ErrCanceled == "context canceled"
\* The refresh's own 15 s context running out.
ErrDeadline == "context deadline exceeded"
\* Any error of c.Get other than redis.Nil.
ErrStore == "redis error"
ErrTypeMismatch == "type mismatch"

\* ---------------------------------------------------------------- processes
\* A foreground caller c runs as process c; the refresh goroutine it may
\* spawn runs as process NumCallers + c.
Fg(c) == c
Bg(c) == NumCallers + c
Procs == 1..(2 * NumCallers)
NoProc == 0

\* Faulty variant of RefreshKey: the refresh enters the group under the
\* key of the foreground calls.
RefreshKey_NoSuffix(k) == k


\* key + ":refresh", the group key of a background refresh.
RefreshKey(k) == k \o ":refresh"
GroupKeys == Keys \cup {RefreshKey(k) : k \in Keys}

VARIABLES
    store,      \* Cacher contents: key -> value or Absent
    sfm,        \* singleflight.Group.m: group key -> leader process or NoProc
    call,       \* singleflight call records, one per (potential) leader
    joined,     \* process -> leader of the call it entered in Do
    pc,         \* foreground position of each caller
    key,        \* key argument of each caller
    typ,        \* type parameter T of each caller
    loggerArg,  \* the logger argument of the calls: "nil" or "zap"
    ctx,        \* each caller's context: "live" or "canceled" (done)
    probe,      \* outcome of c.Get for each caller
    cached,     \* the value c.Get decoded into `cached` on a hit
    logged,     \* the log event of the probe's switch for each caller
    fetched,    \* (value, error) fn returned to each foreground leader
    result,     \* (value, error) returned by FindAndCache
    rpc,        \* position of the refresh goroutine spawned by each caller
    wb,         \* state of the write-back goroutine spawned by each caller
    fnCalls,    \* process -> number of invocations of fn it made
    setCalls,   \* processes that called c.Set
    serial,     \* TRUE once some call started after another had returned
    ttlArg,     \* ttl argument of NewGRPCHandlers, in seconds
    cacheTTL,   \* GRPCHandlers.cacheTTL in seconds; 0 before construction
    setTTL,     \* expiration argument of the last c.Set, in seconds
    setSite,    \* which c.Set was issued last: "none", "miss" or "refresh"
    req,        \* the request a handler serves: handler, start and end date
    hpc,        \* position of that handler
    hctx,       \* ctx.Err() of the handler's context
    herr,       \* the error FindAndCache returned to the handler
    hcalls,     \* c.Get and scoring-service calls made for the request
    rsp,        \* gRPC status the handler returned
    kin,        \* two requests handed to normalizeKey
    kout,       \* the two cache keys normalizeKey made of them
    closed,     \* whether the redis client's connection pool is closed
    closeRet,   \* the errors the calls of Cache.Close returned, in order
    pin,        \* what the storage answers to the current and previous query
    ppc,        \* position of GetPeriodOverPeriodScoreChange
    pqueries,   \* the GetOverallScore calls it made, in order
    pout,       \* the PeriodChange and error it returned
    db          \* database.New: its options, loop index, waits and return

coreVars == <<store, sfm, call, joined, pc, key, typ, loggerArg, ctx, probe, cached,
              logged, fetched, result, rpc, wb, fnCalls, setCalls, serial>>
ttlVars == <<ttlArg, cacheTTL, setTTL, setSite>>
rpcVars == <<req, hpc, hctx, herr, hcalls, rsp>>
keyVars == <<kin, kout>>
closeVars == <<closed, closeRet>>
periodVars == <<pin, ppc, pqueries, pout>>
dbVars == <<db>>
unitVars == <<kin, kout, closed, closeRet, pin, ppc, pqueries, pout, db>>
vars == <<store, sfm, call, joined, pc, key, typ, loggerArg, ctx, probe, cached, logged,
          fetched, result, rpc, wb, fnCalls, setCalls, serial,
          ttlArg, cacheTTL, setTTL, setSite,
          req, hpc, hctx, herr, hcalls, rsp,
          kin, kout, closed, closeRet, pin, ppc, pqueries, pout, db>>

NoCall == [state |-> "none", val |-> ZeroValue, err |-> NoErr, typ |-> "none"]
NoResult == [val |-> "none", err |-> "none"]

\* ---------------------------------------------------------------- TTL
defaultCacheDuration == 600
\* The TTL NewApp hands to NewGRPCHandlers.
appCacheTTL == 600
jitterSpan == 30
jitterOffset == 15

\* rand.Intn(n): any of 0..n-1.
Intn(n) == 0..(n - 1)

\* Faulty variant of addTTLJitter: the jitter is added to every TTL.
addTTLJitter_AlwaysJitters(ttl, r) ==
    ttl + (r - jitterOffset)


\* addTTLJitter(ttl) with r the draw of rand.Intn(30).
addTTLJitter(ttl, r) ==
    IF ttl <= 0 THEN ttl ELSE ttl + (r - jitterOffset)

\* ---------------------------------------------------------------- Init
\* gRPC status of a handler that has not returned, the nil error, and the
\* nil ctx.Err() of a context that is not done.
NoStatus == [code |-> "none", msg |-> ""]
NoError == [text |-> "nil", is |-> {}]
CtxLive == "nil"

\* No request is being served.
NoRequest ==
    /\ req = [handler |-> "none", start |-> 0, end |-> 0]
    /\ hpc = "idle"
    /\ hctx = CtxLive
    /\ herr = NoError
    /\ hcalls = [get |-> 0, scoring |-> 0]
    /\ rsp = NoStatus

\* The functions and components that are exercised on their own are idle.
NoKey ==
    /\ kin = <<>>
    /\ kout = <<>>

\* The cache is open.
NoClose ==
    /\ closed = FALSE
    /\ closeRet = <<>>

NoPeriod ==
    /\ pin = <<>>
    /\ ppc = "idle"
    /\ pqueries = <<>>
    /\ pout = <<>>

\* database.New is not running.
NoDB ==
    db = [pc |-> "idle"]

NoUnit ==
    /\ NoKey
    /\ NoClose
    /\ NoPeriod
    /\ NoDB

\* Everything but the type parameters, the logger and the request.
InitCalls ==
    /\ store \in [Keys -> {Absent, OldValue}]
    /\ sfm = [g \in GroupKeys |-> NoProc]
    /\ call = [p \in Procs |-> NoCall]
    /\ joined = [p \in Procs |-> NoProc]
    /\ pc = [c \in Callers |-> "start"]
    /\ key = [c \in Callers |-> "none"]
    /\ ctx = [c \in Callers |-> "live"]
    /\ probe = [c \in Callers |-> "none"]
    /\ cached = [c \in Callers |-> ZeroValue]
    /\ logged = [c \in Callers |-> "none"]
    /\ fetched = [c \in Callers |-> NoResult]
    /\ result = [c \in Callers |-> NoResult]
    /\ rpc = [c \in Callers |-> "none"]
    /\ wb = [c \in Callers |-> "none"]
    /\ fnCalls = [p \in Procs |-> 0]
    /\ setCalls = {}
    /\ serial = FALSE

\* Calls of one instantiation, FindAndCache[float64], with the handlers'
\* logger.
InitCore ==
    /\ InitCalls
    /\ typ = [c \in Callers |-> "float64"]
    /\ loggerArg = "zap"
    /\ NoRequest
    /\ NoUnit

\* The server as NewApp builds it.
Init ==
    /\ InitCore
    /\ ttlArg = appCacheTTL
    /\ cacheTTL = appCacheTTL
    /\ setTTL = 0
    /\ setSite = "none"

\* ---------------------------------------------------------------- store
\* Outcomes of c.Get(ctx, key, &cached) as FindAndCache's switch tells them
\* apart: nil ("hit") only when the entry exists; redis.Nil ("notfound") when
\* it does not; any other error ("error": transport, or json.Unmarshal
\* rejecting the bytes read) in either case, and always on a closed client.
GetOutcomes(k) ==
    IF closed THEN {"error"}
    ELSE IF store[k] # Absent
        THEN {"hit", "error"}
        ELSE {"notfound", "error"}

\* Whether c.Set stores the entry: it may fail at any time and does fail on
\* a closed client.
SetOutcomes == IF closed THEN {FALSE} ELSE BOOLEAN

\* Faulty variant of FetchOutcomes: fn runs under a context that is done as
\* soon as the context of any caller in the call is.
FetchOutcomes_AnyCallersContext(c) ==
    {[val |-> v, err |-> NoErr] : v \in Values}
        \cup {[val |-> ZeroValue, err |-> ErrCompute]}
        \cup (IF \E d \in Callers : joined[Fg(d)] = Fg(c) /\ ctx[d] = "canceled"
                THEN {[val |-> ZeroValue, err |-> ErrCanceled]} ELSE {})


\* Outcomes of fn(ctx) under the caller's context: a value, the compute's
\* own error, or the context's error once the context is done.
FetchOutcomes(c) ==
    {[val |-> v, err |-> NoErr] : v \in Values}
        \cup {[val |-> ZeroValue, err |-> ErrCompute]}
        \cup (IF ctx[c] = "canceled"
                THEN {[val |-> ZeroValue, err |-> ErrCanceled]} ELSE {})

\* Outcomes of fn(ctx) under the refresh's own 15 s timeout context.
RefreshFetchOutcomes ==
    {[val |-> v, err |-> NoErr] : v \in Values}
        \cup {[val |-> ZeroValue, err |-> ErrCompute],
              [val |-> ZeroValue, err |-> ErrDeadline]}

\* ---------------------------------------------------------------- FindAndCache
\* The log event of each branch of the switch of lines 146-157.
ProbeLog(out) ==
    CASE out = "hit" -> "cache hit"
      [] out = "notfound" -> "cache miss"
      [] OTHER -> "cache get error (treating as miss)"

\* Faulty variant of EffectiveLogger: the logger is used as it was passed.
EffectiveLogger_NoSubstitution(l) == l

\* Lines 139-142: a nil logger is replaced by zap.NewNop().
EffectiveLogger(l) == IF l = "nil" THEN "nop" ELSE l

\* A method of *zap.Logger called on a nil pointer dereferences it.
LogPanics(l) == l = "nil"

\* Faulty variant of Probe: a hit falls through to the coalesced compute.
Probe_HitFallsThrough(c) ==
    /\ pc[c] = "start"
    /\ \E k \in Keys : \E out \in GetOutcomes(k) :
        /\ key' = [key EXCEPT ![c] = k]
        /\ probe' = [probe EXCEPT ![c] = out]
        /\ logged' = [logged EXCEPT ![c] = ProbeLog(out)]
        /\ cached' = [cached EXCEPT ![c] = IF out = "hit" THEN store[k] ELSE @]
    /\ pc' = [pc EXCEPT ![c] = "miss"]
    /\ serial' = (serial \/ \E d \in Callers : pc[d] = "done")
    /\ UNCHANGED <<store, sfm, call, joined, typ, loggerArg, ctx, fetched, result, rpc,
                   wb, fnCalls, setCalls>>
    /\ UNCHANGED ttlVars
    /\ UNCHANGED rpcVars
    /\ UNCHANGED unitVars

\* Faulty variant of Probe: an error of c.Get other than redis.Nil is
\* returned to the caller.
Probe_StoreErrorReturned(c) ==
    /\ pc[c] = "start"
    /\ \E k \in Keys : \E out \in GetOutcomes(k) :
        /\ key' = [key EXCEPT ![c] = k]
        /\ probe' = [probe EXCEPT ![c] = out]
        /\ logged' = [logged EXCEPT ![c] = ProbeLog(out)]
        /\ CASE out = "hit" ->
                 /\ cached' = [cached EXCEPT ![c] = store[k]]
                 /\ result' = [result EXCEPT ![c] = [val |-> store[k], err |-> NoErr]]
                 /\ rpc' = [rpc EXCEPT ![c] = "sleeping"]
                 /\ pc' = [pc EXCEPT ![c] = "done"]
             [] out = "error" ->
                 /\ result' = [result EXCEPT ![c] = [val |-> ZeroValue, err |-> ErrStore]]
                 /\ pc' = [pc EXCEPT ![c] = "done"]
                 /\ UNCHANGED <<cached, rpc>>
             [] OTHER ->
                 /\ pc' = [pc EXCEPT ![c] = "miss"]
                 /\ UNCHANGED <<cached, result, rpc>>
    /\ serial' = (serial \/ \E d \in Callers : pc[d] = "done")
    /\ UNCHANGED <<store, sfm, call, joined, typ, loggerArg, ctx, fetched, wb, fnCalls,
                   setCalls>>
    /\ UNCHANGED ttlVars
    /\ UNCHANGED rpcVars
    /\ UNCHANGED unitVars

\* Faulty variant of Probe: the refresh goroutine is started whatever c.Get
\* returned.
Probe_RefreshOnEveryProbe(c) ==
    /\ pc[c] = "start"
    /\ \E k \in Keys : \E out \in GetOutcomes(k) :
        /\ key' = [key EXCEPT ![c] = k]
        /\ probe' = [probe EXCEPT ![c] = out]
        /\ logged' = [logged EXCEPT ![c] = ProbeLog(out)]
        /\ rpc' = [rpc EXCEPT ![c] = "sleeping"]
        /\ IF out = "hit"
            THEN /\ cached' = [cached EXCEPT ![c] = store[k]]
                 /\ result' = [result EXCEPT ![c] = [val |-> store[k], err |-> NoErr]]
                 /\ pc' = [pc EXCEPT ![c] = "done"]
            ELSE /\ pc' = [pc EXCEPT ![c] = "miss"]
                 /\ UNCHANGED <<cached, result>>
    /\ serial' = (serial \/ \E d \in Callers : pc[d] = "done")
    /\ UNCHANGED <<store, sfm, call, joined, typ, loggerArg, ctx, fetched, wb, fnCalls,
                   setCalls>>
    /\ UNCHANGED ttlVars
    /\ UNCHANGED rpcVars
    /\ UNCHANGED unitVars


\* Faulty variant of Probe: a hit writes the entry back to extend its life.
Probe_HitRewritesEntry(c) ==
    /\ pc[c] = "start"
    /\ \E k \in Keys : \E out \in GetOutcomes(k) :
        /\ key' = [key EXCEPT ![c] = k]
        /\ probe' = [probe EXCEPT ![c] = out]
        /\ logged' = [logged EXCEPT ![c] = ProbeLog(out)]
        /\ IF out = "hit"
            THEN /\ cached' = [cached EXCEPT ![c] = store[k]]
                 /\ result' = [result EXCEPT ![c] = [val |-> store[k], err |-> NoErr]]
                 /\ rpc' = [rpc EXCEPT ![c] = "sleeping"]
                 /\ pc' = [pc EXCEPT ![c] = "done"]
                 /\ setCalls' = setCalls \cup {Fg(c)}
            ELSE /\ pc' = [pc EXCEPT ![c] = "miss"]
                 /\ UNCHANGED <<cached, result, rpc, setCalls>>
    /\ serial' = (serial \/ \E d \in Callers : pc[d] = "done")
    /\ UNCHANGED <<store, sfm, call, joined, typ, loggerArg, ctx, fetched, wb, fnCalls>>
    /\ UNCHANGED ttlVars
    /\ UNCHANGED rpcVars
    /\ UNCHANGED unitVars


\* Lines 140-157: the logger is settled, then the probe; every branch of the
\* switch logs first, which panics on a nil logger; on a hit the cached
\* value is returned and the refresh goroutine is spawned; otherwise the
\* caller goes on to sf.Do.
Probe(c) ==
    /\ pc[c] = "start"
    /\ \E k \in Keys : \E out \in GetOutcomes(k) :
        /\ key' = [key EXCEPT ![c] = k]
        /\ probe' = [probe EXCEPT ![c] = out]
        /\ IF LogPanics(EffectiveLogger(loggerArg))
            THEN /\ pc' = [pc EXCEPT ![c] = "panic"]
                 /\ UNCHANGED <<logged, cached, result, rpc>>
            ELSE /\ logged' = [logged EXCEPT ![c] = ProbeLog(out)]
                 /\ IF out = "hit"
                     THEN /\ cached' = [cached EXCEPT ![c] = store[k]]
                          /\ result' = [result EXCEPT ![c] =
                                 [val |-> store[k], err |-> NoErr]]
                          /\ rpc' = [rpc EXCEPT ![c] = "sleeping"]
                          /\ pc' = [pc EXCEPT ![c] = "done"]
                     ELSE /\ pc' = [pc EXCEPT ![c] = "miss"]
                          /\ UNCHANGED <<cached, result, rpc>>
    /\ serial' = (serial \/ \E d \in Callers : pc[d] = "done")
    /\ UNCHANGED <<store, sfm, call, joined, typ, loggerArg, ctx, fetched, wb, fnCalls,
                   setCalls>>
    /\ UNCHANGED ttlVars
    /\ UNCHANGED rpcVars
    /\ UNCHANGED unitVars

\* The call record a leader with type parameter t registers.
NewCall(t) ==
    [state |-> "active", val |-> ZeroValue, err |-> NoErr, typ |-> t]

\* Faulty variant of DoEnter: the lookup and the registration are not one
\* atomic step, so a caller registers its own call although one is in flight.
DoEnter_NoCoalescing(c) ==
    /\ pc[c] = "miss"
    /\ sfm' = [sfm EXCEPT ![key[c]] = Fg(c)]
    /\ call' = [call EXCEPT ![Fg(c)] = NewCall(typ[c])]
    /\ joined' = [joined EXCEPT ![Fg(c)] = Fg(c)]
    /\ fnCalls' = [fnCalls EXCEPT ![Fg(c)] = @ + 1]
    /\ pc' = [pc EXCEPT ![c] = "computing"]
    /\ UNCHANGED <<store, key, typ, loggerArg, ctx, probe, cached, logged, fetched, result,
                   rpc, wb, setCalls, serial>>
    /\ UNCHANGED ttlVars
    /\ UNCHANGED rpcVars
    /\ UNCHANGED unitVars

\* Faulty variant of DoEnter: the group tracks one call for all keys, so a
\* caller joins whatever computation is in flight.
DoEnter_OneCallForAllKeys(c) ==
    /\ pc[c] = "miss"
    /\ IF \A k \in Keys : sfm[k] = NoProc
        THEN /\ sfm' = [sfm EXCEPT ![key[c]] = Fg(c)]
             /\ call' = [call EXCEPT ![Fg(c)] = NewCall(typ[c])]
             /\ joined' = [joined EXCEPT ![Fg(c)] = Fg(c)]
             /\ fnCalls' = [fnCalls EXCEPT ![Fg(c)] = @ + 1]
             /\ pc' = [pc EXCEPT ![c] = "computing"]
        ELSE /\ joined' = [joined EXCEPT ![Fg(c)] =
                    sfm[CHOOSE k \in Keys : sfm[k] # NoProc]]
             /\ pc' = [pc EXCEPT ![c] = "waiting"]
             /\ UNCHANGED <<sfm, call, fnCalls>>
    /\ UNCHANGED <<store, key, typ, loggerArg, ctx, probe, cached, logged, fetched, result,
                   rpc, wb, setCalls, serial>>
    /\ UNCHANGED ttlVars
    /\ UNCHANGED rpcVars
    /\ UNCHANGED unitVars


\* Faulty variant of DoEnter: a completed call stays in the group, so a later
\* caller for the key is handed the completed call instead of invoking fn.
DoEnter_KeepsCompletedCall(c) ==
    /\ pc[c] = "miss"
    /\ LET done == {d \in Callers \ {c} :
                        key[d] = key[c] /\ pc[d] = "done" /\ joined[Fg(d)] = Fg(d)}
       IN IF sfm[key[c]] = NoProc /\ done = {}
        THEN /\ sfm' = [sfm EXCEPT ![key[c]] = Fg(c)]
             /\ call' = [call EXCEPT ![Fg(c)] = NewCall(typ[c])]
             /\ joined' = [joined EXCEPT ![Fg(c)] = Fg(c)]
             /\ fnCalls' = [fnCalls EXCEPT ![Fg(c)] = @ + 1]
             /\ pc' = [pc EXCEPT ![c] = "computing"]
        ELSE /\ joined' = [joined EXCEPT ![Fg(c)] =
                    IF sfm[key[c]] # NoProc THEN sfm[key[c]]
                    ELSE Fg(CHOOSE d \in done : TRUE)]
             /\ pc' = [pc EXCEPT ![c] = "waiting"]
             /\ UNCHANGED <<sfm, call, fnCalls>>
    /\ UNCHANGED <<store, key, typ, loggerArg, ctx, probe, cached, logged, fetched, result,
                   rpc, wb, setCalls, serial>>
    /\ UNCHANGED ttlVars
    /\ UNCHANGED rpcVars
    /\ UNCHANGED unitVars


\* sf.Do(key, ...) entry, under the group's mutex: join the call registered
\* for the key, or register a new one and invoke fn.
DoEnter(c) ==
    /\ pc[c] = "miss"
    /\ IF sfm[key[c]] = NoProc
        THEN /\ sfm' = [sfm EXCEPT ![key[c]] = Fg(c)]
             /\ call' = [call EXCEPT ![Fg(c)] = NewCall(typ[c])]
             /\ joined' = [joined EXCEPT ![Fg(c)] = Fg(c)]
             /\ fnCalls' = [fnCalls EXCEPT ![Fg(c)] = @ + 1]
             /\ pc' = [pc EXCEPT ![c] = "computing"]
        ELSE /\ joined' = [joined EXCEPT ![Fg(c)] = sfm[key[c]]]
             /\ pc' = [pc EXCEPT ![c] = "waiting"]
             /\ UNCHANGED <<sfm, call, fnCalls>>
    /\ UNCHANGED <<store, key, typ, loggerArg, ctx, probe, cached, logged, fetched, result,
                   rpc, wb, setCalls, serial>>
    /\ UNCHANGED ttlVars
    /\ UNCHANGED rpcVars
    /\ UNCHANGED unitVars

\* Processes blocked in c.wg.Wait() on the call led by process l.
Waiting(l) ==
    {p \in Procs \ {l} :
        /\ joined[p] = l
        /\ \/ p \in Callers /\ pc[p] = "waiting"
           \/ p \notin Callers /\ rpc[p - NumCallers] = "waiting"}

\* Faulty variant of Finished: the call record is dropped when its function
\* returns although processes wait on it, so they are never released.
Finished_ForgetsWaiters(l, rec) ==
    NoCall


\* The call record once its function has returned: it stays reachable only
\* through the processes still waiting on it.
Finished(l, rec) ==
    IF Waiting(l) = {} THEN NoCall ELSE rec

\* The call record after waiter p has read it.
Released(p, l) ==
    IF Waiting(l) = {p} THEN NoCall ELSE call[l]

\* Faulty variant of Returned: the shared value is handed to the caller
\* without the type assertion.
Returned_NoTypeCheck(c, l) ==
    IF call[l].err # NoErr THEN [val |-> ZeroValue, err |-> call[l].err]
    ELSE [val |-> call[l].val, err |-> NoErr]


\* Lines 162-176 on the result of the call led by process l: the error, else
\* the type assertion v.(T), else the value.
Returned(c, l) ==
    IF call[l].err # NoErr THEN [val |-> ZeroValue, err |-> call[l].err]
    ELSE IF call[l].typ # typ[c] THEN [val |-> ZeroValue, err |-> ErrTypeMismatch]
    ELSE [val |-> call[l].val, err |-> NoErr]

\* Faulty variant of ComputeReturn: the write-back goroutine is spawned
\* whatever fn returned.
ComputeReturn_WritesOnError(c) ==
    /\ pc[c] = "computing"
    /\ \E out \in FetchOutcomes(c) :
        /\ call' = [call EXCEPT ![Fg(c)] = Finished(Fg(c),
                [state |-> "done", val |-> out.val, err |-> out.err, typ |-> typ[c]])]
        /\ fetched' = [fetched EXCEPT ![c] = out]
        /\ wb' = [wb EXCEPT ![c] = "pending"]
        /\ result' = [result EXCEPT ![c] = out]
    /\ sfm' = [sfm EXCEPT ![key[c]] = NoProc]
    /\ pc' = [pc EXCEPT ![c] = "done"]
    /\ UNCHANGED <<store, joined, key, typ, loggerArg, ctx, probe, cached, logged, rpc,
                   fnCalls, setCalls, serial>>
    /\ UNCHANGED ttlVars
    /\ UNCHANGED rpcVars
    /\ UNCHANGED unitVars

\* Faulty variant of ComputeReturn: a failed fn is invoked a second time
\* before its error is given up on.
ComputeReturn_RetriesOnError(c) ==
    /\ pc[c] = "computing"
    /\ \E out \in FetchOutcomes(c) :
        IF out.err # NoErr /\ fnCalls[Fg(c)] < 2
            THEN /\ fnCalls' = [fnCalls EXCEPT ![Fg(c)] = @ + 1]
                 /\ UNCHANGED <<call, fetched, wb, result, sfm, pc>>
            ELSE /\ call' = [call EXCEPT ![Fg(c)] = Finished(Fg(c),
                        [state |-> "done", val |-> out.val, err |-> out.err,
                         typ |-> typ[c]])]
                 /\ fetched' = [fetched EXCEPT ![c] = out]
                 /\ wb' = [wb EXCEPT ![c] = IF out.err = NoErr THEN "pending" ELSE @]
                 /\ result' = [result EXCEPT ![c] = out]
                 /\ sfm' = [sfm EXCEPT ![key[c]] = NoProc]
                 /\ pc' = [pc EXCEPT ![c] = "done"]
                 /\ UNCHANGED fnCalls
    /\ UNCHANGED <<store, joined, key, typ, loggerArg, ctx, probe, cached, logged, rpc,
                   setCalls, serial>>
    /\ UNCHANGED ttlVars
    /\ UNCHANGED rpcVars
    /\ UNCHANGED unitVars


\* fetchAndCacheInBackground returns inside the leader's sf.Do: on success
\* the write-back goroutine is spawned; the call is published and removed
\* from the group; the leader returns from FindAndCache.
ComputeReturn(c) ==
    /\ pc[c] = "computing"
    /\ \E out \in FetchOutcomes(c) :
        /\ call' = [call EXCEPT ![Fg(c)] = Finished(Fg(c),
                [state |-> "done", val |-> out.val, err |-> out.err, typ |-> typ[c]])]
        /\ fetched' = [fetched EXCEPT ![c] = out]
        /\ wb' = [wb EXCEPT ![c] = IF out.err = NoErr THEN "pending" ELSE @]
        /\ result' = [result EXCEPT ![c] = out]
    /\ sfm' = [sfm EXCEPT ![key[c]] = NoProc]
    /\ pc' = [pc EXCEPT ![c] = "done"]
    /\ UNCHANGED <<store, joined, key, typ, loggerArg, ctx, probe, cached, logged, rpc,
                   fnCalls, setCalls, serial>>
    /\ UNCHANGED ttlVars
    /\ UNCHANGED rpcVars
    /\ UNCHANGED unitVars

\* Faulty variant of WaitReturn: a caller that was handed a shared value
\* starts a write-back of its own.
WaitReturn_WaiterWritesToo(c) ==
    /\ pc[c] = "waiting"
    /\ call[joined[Fg(c)]].state = "done"
    /\ result' = [result EXCEPT ![c] = Returned(c, joined[Fg(c)])]
    /\ fetched' = [fetched EXCEPT ![c] = Returned(c, joined[Fg(c)])]
    /\ wb' = [wb EXCEPT ![c] =
            IF Returned(c, joined[Fg(c)]).err = NoErr THEN "pending" ELSE @]
    /\ call' = [call EXCEPT ![joined[Fg(c)]] = Released(Fg(c), joined[Fg(c)])]
    /\ pc' = [pc EXCEPT ![c] = "done"]
    /\ UNCHANGED <<store, sfm, joined, key, typ, loggerArg, ctx, probe, cached, logged,
                   rpc, fnCalls, setCalls, serial>>
    /\ UNCHANGED ttlVars
    /\ UNCHANGED rpcVars
    /\ UNCHANGED unitVars


\* A caller that joined a call returns once that call is done (c.wg.Wait()).
WaitReturn(c) ==
    /\ pc[c] = "waiting"
    /\ call[joined[Fg(c)]].state = "done"
    /\ result' = [result EXCEPT ![c] = Returned(c, joined[Fg(c)])]
    /\ call' = [call EXCEPT ![joined[Fg(c)]] = Released(Fg(c), joined[Fg(c)])]
    /\ pc' = [pc EXCEPT ![c] = "done"]
    /\ UNCHANGED <<store, sfm, joined, key, typ, loggerArg, ctx, probe, cached, logged,
                   fetched, rpc, wb, fnCalls, setCalls, serial>>
    /\ UNCHANGED ttlVars
    /\ UNCHANGED rpcVars
    /\ UNCHANGED unitVars

\* Faulty variant of WriteBack: the write is synchronous with the caller, so
\* a failed c.Set replaces the result the caller gets.
WriteBack_SurfacesError(c) ==
    /\ wb[c] = "pending"
    /\ \E ok \in SetOutcomes :
        /\ store' = IF ok THEN [store EXCEPT ![key[c]] = fetched[c].val] ELSE store
        /\ wb' = [wb EXCEPT ![c] = IF ok THEN "ok" ELSE "failed"]
        /\ result' = [result EXCEPT ![c] =
                IF ok THEN @ ELSE [val |-> ZeroValue, err |-> ErrStore]]
    /\ setCalls' = setCalls \cup {Fg(c)}
    /\ UNCHANGED <<sfm, call, joined, pc, key, typ, loggerArg, ctx, probe, cached, logged,
                   fetched, rpc, fnCalls, serial>>
    /\ UNCHANGED ttlVars
    /\ UNCHANGED rpcVars
    /\ UNCHANGED unitVars

\* Faulty variant of WriteBack: the write is a set-if-absent, so the entry
\* keeps the value of the first Set.
WriteBack_KeepsExistingEntry(c) ==
    /\ wb[c] = "pending"
    /\ \E ok \in SetOutcomes :
        /\ store' = IF ok /\ store[key[c]] = Absent
                        THEN [store EXCEPT ![key[c]] = fetched[c].val]
                        ELSE store
        /\ wb' = [wb EXCEPT ![c] = IF ok THEN "ok" ELSE "failed"]
    /\ setCalls' = setCalls \cup {Fg(c)}
    /\ UNCHANGED <<sfm, call, joined, pc, key, typ, loggerArg, ctx, probe, cached, logged,
                   fetched, result, rpc, fnCalls, serial>>
    /\ UNCHANGED ttlVars
    /\ UNCHANGED rpcVars
    /\ UNCHANGED unitVars


\* The goroutine of lines 114-124: c.Set under its own 5 s context; the
\* outcome is only logged.
WriteBack(c) ==
    /\ wb[c] = "pending"
    /\ \E ok \in SetOutcomes :
        /\ store' = IF ok THEN [store EXCEPT ![key[c]] = fetched[c].val] ELSE store
        /\ wb' = [wb EXCEPT ![c] = IF ok THEN "ok" ELSE "failed"]
    /\ setCalls' = setCalls \cup {Fg(c)}
    /\ UNCHANGED <<sfm, call, joined, pc, key, typ, loggerArg, ctx, probe, cached, logged,
                   fetched, result, rpc, fnCalls, serial>>
    /\ UNCHANGED ttlVars
    /\ UNCHANGED rpcVars
    /\ UNCHANGED unitVars

\* The caller's context becomes done (cancelled, or its deadline passes)
\* while the computation the caller is in sf.Do for is pending. Only fn reads
\* the context after the probe, so a cancellation between the probe and
\* sf.Do has the effect of one right after the entry, and one after the
\* computation has returned has none.
Cancel(c) ==
    /\ \/ pc[c] = "computing"
       \/ pc[c] = "waiting" /\ call[joined[Fg(c)]].state = "active"
    /\ ctx[c] = "live"
    /\ ctx' = [ctx EXCEPT ![c] = "canceled"]
    /\ UNCHANGED <<store, sfm, call, joined, pc, key, typ, loggerArg, probe, cached, logged,
                   fetched, result, rpc, wb, fnCalls, setCalls, serial>>
    /\ UNCHANGED ttlVars
    /\ UNCHANGED rpcVars
    /\ UNCHANGED unitVars

\* ---------------------------------------------------------------- refresh
\* Faulty variant of RefreshEnter: the refresh registers its own call
\* although one is in flight for the refresh key.
RefreshEnter_NoCoalescing(c) ==
    /\ rpc[c] = "sleeping"
    /\ sfm' = [sfm EXCEPT ![RefreshKey(key[c])] = Bg(c)]
    /\ call' = [call EXCEPT ![Bg(c)] = NewCall(typ[c])]
    /\ joined' = [joined EXCEPT ![Bg(c)] = Bg(c)]
    /\ fnCalls' = [fnCalls EXCEPT ![Bg(c)] = @ + 1]
    /\ rpc' = [rpc EXCEPT ![c] = "computing"]
    /\ UNCHANGED <<store, pc, key, typ, loggerArg, ctx, probe, cached, logged, fetched,
                   result, wb, setCalls, serial>>
    /\ UNCHANGED ttlVars
    /\ UNCHANGED rpcVars
    /\ UNCHANGED unitVars

\* Faulty variant of RefreshEnter: each refresh task enters the group under
\* a key of its own, so it always runs fn itself.
RefreshEnter_KeyPerTask(c) ==
    /\ rpc[c] = "sleeping"
    /\ call' = [call EXCEPT ![Bg(c)] = NewCall(typ[c])]
    /\ joined' = [joined EXCEPT ![Bg(c)] = Bg(c)]
    /\ fnCalls' = [fnCalls EXCEPT ![Bg(c)] = @ + 1]
    /\ rpc' = [rpc EXCEPT ![c] = "computing"]
    /\ UNCHANGED <<store, sfm, pc, key, typ, loggerArg, ctx, probe, cached, logged, fetched,
                   result, wb, setCalls, serial>>
    /\ UNCHANGED ttlVars
    /\ UNCHANGED rpcVars
    /\ UNCHANGED unitVars


\* Lines 64-67: after the sleep the goroutine enters sf.Do(key+":refresh").
RefreshEnter(c) ==
    /\ rpc[c] = "sleeping"
    /\ IF sfm[RefreshKey(key[c])] = NoProc
        THEN /\ sfm' = [sfm EXCEPT ![RefreshKey(key[c])] = Bg(c)]
             /\ call' = [call EXCEPT ![Bg(c)] = NewCall(typ[c])]
             /\ joined' = [joined EXCEPT ![Bg(c)] = Bg(c)]
             /\ fnCalls' = [fnCalls EXCEPT ![Bg(c)] = @ + 1]
             /\ rpc' = [rpc EXCEPT ![c] = "computing"]
        ELSE /\ joined' = [joined EXCEPT ![Bg(c)] = sfm[RefreshKey(key[c])]]
             /\ rpc' = [rpc EXCEPT ![c] = "waiting"]
             /\ UNCHANGED <<sfm, call, fnCalls>>
    /\ UNCHANGED <<store, pc, key, typ, loggerArg, ctx, probe, cached, logged, fetched,
                   result, wb, setCalls, serial>>
    /\ UNCHANGED ttlVars
    /\ UNCHANGED rpcVars
    /\ UNCHANGED unitVars

\* Faulty variant of RefreshCompute: the refresh goes on to c.Set whatever
\* fn returned, storing the zero value after a failed compute.
RefreshCompute_WritesOnError(c) ==
    /\ rpc[c] = "computing"
    /\ \E out \in RefreshFetchOutcomes :
        call' = [call EXCEPT ![Bg(c)].val = out.val]
    /\ rpc' = [rpc EXCEPT ![c] = "setting"]
    /\ UNCHANGED <<store, sfm, joined, pc, key, typ, loggerArg, ctx, probe, cached, logged,
                   fetched, result, wb, fnCalls, setCalls, serial>>
    /\ UNCHANGED ttlVars
    /\ UNCHANGED rpcVars
    /\ UNCHANGED unitVars


\* Faulty variant of RefreshCompute: fn runs under the context of the caller
\* that hit, so it fails once that context is done.
RefreshCompute_UnderCallerContext(c) ==
    /\ rpc[c] = "computing"
    /\ \E out \in (IF ctx[c] = "canceled"
                     THEN {[val |-> ZeroValue, err |-> ErrCanceled]}
                     ELSE RefreshFetchOutcomes) :
        IF out.err # NoErr
            THEN /\ call' = [call EXCEPT ![Bg(c)] = Finished(Bg(c),
                        [state |-> "done", val |-> ZeroValue, err |-> out.err,
                         typ |-> typ[c]])]
                 /\ sfm' = [sfm EXCEPT ![RefreshKey(key[c])] = NoProc]
                 /\ rpc' = [rpc EXCEPT ![c] = "done"]
            ELSE /\ call' = [call EXCEPT ![Bg(c)].val = out.val]
                 /\ rpc' = [rpc EXCEPT ![c] = "setting"]
                 /\ UNCHANGED sfm
    /\ UNCHANGED <<store, joined, pc, key, typ, loggerArg, ctx, probe, cached, logged,
                   fetched, result, wb, fnCalls, setCalls, serial>>
    /\ UNCHANGED ttlVars
    /\ UNCHANGED rpcVars
    /\ UNCHANGED unitVars


\* Lines 71-77: fn returns inside the refresh call; an error ends the call.
RefreshCompute(c) ==
    /\ rpc[c] = "computing"
    /\ \E out \in RefreshFetchOutcomes :
        IF out.err # NoErr
            THEN /\ call' = [call EXCEPT ![Bg(c)] = Finished(Bg(c),
                        [state |-> "done", val |-> ZeroValue, err |-> out.err,
                         typ |-> typ[c]])]
                 /\ sfm' = [sfm EXCEPT ![RefreshKey(key[c])] = NoProc]
                 /\ rpc' = [rpc EXCEPT ![c] = "done"]
            ELSE /\ call' = [call EXCEPT ![Bg(c)].val = out.val]
                 /\ rpc' = [rpc EXCEPT ![c] = "setting"]
                 /\ UNCHANGED sfm
    /\ UNCHANGED <<store, joined, pc, key, typ, loggerArg, ctx, probe, cached, logged,
                   fetched, result, wb, fnCalls, setCalls, serial>>
    /\ UNCHANGED ttlVars
    /\ UNCHANGED rpcVars
    /\ UNCHANGED unitVars

\* Faulty variant of RefreshSet: the refresh call is taken out of the group
\* but never marked done, so a refresh that joined it is never released.
RefreshSet_LeavesCallOpen(c) ==
    /\ rpc[c] = "setting"
    /\ \E ok \in SetOutcomes :
        store' = IF ok THEN [store EXCEPT ![key[c]] = call[Bg(c)].val] ELSE store
    /\ sfm' = [sfm EXCEPT ![RefreshKey(key[c])] = NoProc]
    /\ setCalls' = setCalls \cup {Bg(c)}
    /\ rpc' = [rpc EXCEPT ![c] = "done"]
    /\ UNCHANGED <<call, joined, pc, key, typ, loggerArg, ctx, probe, cached, logged,
                   fetched, result, wb, fnCalls, serial>>
    /\ UNCHANGED ttlVars
    /\ UNCHANGED rpcVars
    /\ UNCHANGED unitVars


\* Lines 79-93: c.Set inside the refresh call, then the call ends.
RefreshSet(c) ==
    /\ rpc[c] = "setting"
    /\ \E ok \in SetOutcomes :
        store' = IF ok THEN [store EXCEPT ![key[c]] = call[Bg(c)].val] ELSE store
    /\ call' = [call EXCEPT ![Bg(c)] =
            Finished(Bg(c), [call[Bg(c)] EXCEPT !.state = "done"])]
    /\ sfm' = [sfm EXCEPT ![RefreshKey(key[c])] = NoProc]
    /\ setCalls' = setCalls \cup {Bg(c)}
    /\ rpc' = [rpc EXCEPT ![c] = "done"]
    /\ UNCHANGED <<joined, pc, key, typ, loggerArg, ctx, probe, cached, logged, fetched,
                   result, wb, fnCalls, serial>>
    /\ UNCHANGED ttlVars
    /\ UNCHANGED rpcVars
    /\ UNCHANGED unitVars

\* Faulty variant of RefreshWaitReturn: a refresh that joined another one
\* stores the shared result itself.
RefreshWaitReturn_JoinerWrites(c) ==
    /\ rpc[c] = "waiting"
    /\ call[joined[Bg(c)]].state = "done"
    /\ store' = IF call[joined[Bg(c)]].err = NoErr
                    THEN [store EXCEPT ![key[c]] = call[joined[Bg(c)]].val]
                    ELSE store
    /\ setCalls' = setCalls \cup {Bg(c)}
    /\ call' = [call EXCEPT ![joined[Bg(c)]] = Released(Bg(c), joined[Bg(c)])]
    /\ rpc' = [rpc EXCEPT ![c] = "done"]
    /\ UNCHANGED <<sfm, joined, pc, key, typ, loggerArg, ctx, probe, cached, logged,
                   fetched, result, wb, fnCalls, serial>>
    /\ UNCHANGED ttlVars
    /\ UNCHANGED rpcVars
    /\ UNCHANGED unitVars


\* A refresh goroutine that joined another refresh ends when that one does;
\* the result is discarded.
RefreshWaitReturn(c) ==
    /\ rpc[c] = "waiting"
    /\ call[joined[Bg(c)]].state = "done"
    /\ call' = [call EXCEPT ![joined[Bg(c)]] = Released(Bg(c), joined[Bg(c)])]
    /\ rpc' = [rpc EXCEPT ![c] = "done"]
    /\ UNCHANGED <<store, sfm, joined, pc, key, typ, loggerArg, ctx, probe, cached, logged,
                   fetched, result, wb, fnCalls, setCalls, serial>>
    /\ UNCHANGED ttlVars
    /\ UNCHANGED rpcVars
    /\ UNCHANGED unitVars

Next ==
    \E c \in Callers :
        \/ Probe(c)
        \/ DoEnter(c)
        \/ ComputeReturn(c)
        \/ WaitReturn(c)
        \/ WriteBack(c)
        \/ Cancel(c)
        \/ RefreshEnter(c)
        \/ RefreshCompute(c)
        \/ RefreshSet(c)
        \/ RefreshWaitReturn(c)

Spec == Init /\ [][Next]_vars

\* ---------------------------------------------------------------- detached tasks
\* A handler's `defer cancel()`: once FindAndCache has returned, the context
\* the caller passed is cancelled, while the refresh or the write-back the
\* call spawned may still be outstanding.
CancelAfterReturn(c) ==
    /\ pc[c] = "done"
    /\ ctx[c] = "live"
    /\ \/ rpc[c] \in {"sleeping", "waiting", "computing", "setting"}
       \/ wb[c] = "pending"
    /\ ctx' = [ctx EXCEPT ![c] = "canceled"]
    /\ UNCHANGED <<store, sfm, call, joined, pc, key, typ, loggerArg, probe, cached, logged,
                   fetched, result, rpc, wb, fnCalls, setCalls, serial>>
    /\ UNCHANGED ttlVars
    /\ UNCHANGED rpcVars
    /\ UNCHANGED unitVars

NextDetached ==
    \/ Next
    \/ \E c \in Callers : CancelAfterReturn(c)

\* The server with one key cached and the other not.
InitDetached ==
    /\ Init
    /\ store = [k \in Keys |-> IF k = "k1" THEN OldValue ELSE Absent]

\* FindAndCache called from handlers, which cancel their context on return.
SpecDetached == InitDetached /\ [][NextDetached]_vars


\* ---------------------------------------------------------------- scheduling
\* The calls and the refresh tasks; the write-back goroutine, which nothing
\* waits for, is left to the other specifications.
NextFair ==
    \E c \in Callers :
        \/ Probe(c)
        \/ DoEnter(c)
        \/ ComputeReturn(c)
        \/ WaitReturn(c)
        \/ Cancel(c)
        \/ RefreshEnter(c)
        \/ RefreshCompute(c)
        \/ RefreshSet(c)
        \/ RefreshWaitReturn(c)

\* The Go scheduler runs every runnable goroutine, c.Get and c.Set return
\* (at the latest when their context's deadline passes) and the compute
\* function returns: a step of a call or of a refresh task that stays
\* possible is taken. A caller's context need never become done.
Fairness ==
    \A c \in Callers :
        /\ WF_vars(Probe(c))
        /\ WF_vars(DoEnter(c))
        /\ WF_vars(ComputeReturn(c))
        /\ WF_vars(WaitReturn(c))
        /\ WF_vars(RefreshEnter(c))
        /\ WF_vars(RefreshCompute(c))
        /\ WF_vars(RefreshSet(c))
        /\ WF_vars(RefreshWaitReturn(c))

SpecFair == InitDetached /\ [][NextFair]_vars /\ Fairness


\* ---------------------------------------------------------------- type parameters
\* Callers of any instantiation FindAndCache[T], nothing cached yet.
InitTypes ==
    /\ InitCalls
    /\ store = [k \in Keys |-> Absent]
    /\ typ \in [Callers -> Types]
    /\ loggerArg = "zap"
    /\ NoRequest
    /\ NoUnit
    /\ ttlArg = appCacheTTL
    /\ cacheTTL = appCacheTTL
    /\ setTTL = 0
    /\ setSite = "none"

\* The miss path of FindAndCache with every context live: the calls and
\* their write-backs, up to the time the first refresh goroutine wakes up.
NextTypes ==
    \E c \in Callers :
        \/ Probe(c)
        \/ DoEnter(c)
        \/ ComputeReturn(c)
        \/ WaitReturn(c)
        \/ WriteBack(c)

SpecTypes == InitTypes /\ [][NextTypes]_vars


\* ---------------------------------------------------------------- logger
\* FindAndCache called with or without a logger, one key cached.
InitLogger ==
    /\ InitCalls
    /\ store = [k \in Keys |-> IF k = "k1" THEN OldValue ELSE Absent]
    /\ typ = [c \in Callers |-> "float64"]
    /\ loggerArg \in {"nil", "zap"}
    /\ NoRequest
    /\ NoUnit
    /\ ttlArg = appCacheTTL
    /\ cacheTTL = appCacheTTL
    /\ setTTL = 0
    /\ setSite = "none"

SpecLogger == InitLogger /\ [][Next]_vars


\* ---------------------------------------------------------------- Close
\* Number of calls of Cache.Close.
MaxCloses == 2

\* pool.ErrClosed of go-redis, "redis: client is closed".
ErrClientClosed == "redis: client is closed"

\* Cache.Close returns what redis.Client.Close returns: the first call
\* closes the pool, with or without an error of a connection; every later
\* call finds the pool closed and returns ErrClosed.
CacheClose ==
    /\ Len(closeRet) < MaxCloses
    /\ \E e \in (IF closed THEN {ErrClientClosed} ELSE {NoErr, ErrStore}) :
        closeRet' = Append(closeRet, e)
    /\ closed' = TRUE
    /\ UNCHANGED <<keyVars, periodVars, dbVars>>
    /\ UNCHANGED coreVars
    /\ UNCHANGED ttlVars
    /\ UNCHANGED rpcVars

NextClose ==
    \/ Next
    \/ CacheClose

\* The calls of FindAndCache and the calls of Close on the cache they use.
SpecClose == InitDetached /\ [][NextClose]_vars


\* ---------------------------------------------------------------- teardown
\* A handler runs FindAndCache for an RPC the server accepted: none is
\* accepted once the server has been stopped.
Serve(c) ==
    /\ ~closed
    /\ Probe(c)

\* App.Run after the signal: grpcServer.Stop() is GracefulStop, which returns
\* when every RPC in progress has returned; then the cache is closed. The
\* goroutines the calls started are not waited for.
AppShutdown ==
    /\ ~closed
    /\ \A c \in Callers : pc[c] \in {"start", "done"}
    /\ \E e \in {NoErr, ErrStore} : closeRet' = Append(closeRet, e)
    /\ closed' = TRUE
    /\ UNCHANGED <<keyVars, periodVars, dbVars>>
    /\ UNCHANGED coreVars
    /\ UNCHANGED ttlVars
    /\ UNCHANGED rpcVars

NextShutdown ==
    \/ \E c \in Callers :
        \/ Serve(c)
        \/ DoEnter(c)
        \/ ComputeReturn(c)
        \/ WaitReturn(c)
        \/ WriteBack(c)
        \/ Cancel(c)
        \/ CancelAfterReturn(c)
        \/ RefreshEnter(c)
        \/ RefreshCompute(c)
        \/ RefreshSet(c)
        \/ RefreshWaitReturn(c)
    \/ AppShutdown

\* The server from its start to the end of App.Run.
SpecShutdown == InitDetached /\ [][NextShutdown]_vars


\* ---------------------------------------------------------------- pkg/cache wrapper
\* The function pkg/cache.FindAndCache returns, called by caller c: the
\* probe; on a hit the cached value is returned and a goroutine is started.
WrapperGet(c) ==
    /\ pc[c] = "start"
    /\ \E k \in Keys : \E out \in GetOutcomes(k) :
        /\ key' = [key EXCEPT ![c] = k]
        /\ probe' = [probe EXCEPT ![c] = out]
        /\ IF out = "hit"
            THEN /\ cached' = [cached EXCEPT ![c] = store[k]]
                 /\ result' = [result EXCEPT ![c] = [val |-> store[k], err |-> NoErr]]
                 /\ rpc' = [rpc EXCEPT ![c] = "computing"]
                 /\ pc' = [pc EXCEPT ![c] = "done"]
            ELSE /\ pc' = [pc EXCEPT ![c] = "computing"]
                 /\ UNCHANGED <<cached, result, rpc>>
    /\ UNCHANGED <<store, sfm, call, joined, typ, loggerArg, ctx, logged, fetched, wb,
                   fnCalls, setCalls, serial>>
    /\ UNCHANGED ttlVars
    /\ UNCHANGED rpcVars
    /\ UNCHANGED unitVars

\* Lines 108-111: fn(ctx) after a probe that did not hit; its error is
\* returned.
WrapperFetch(c) ==
    /\ pc[c] = "computing"
    /\ \E out \in FetchOutcomes(c) :
        /\ fetched' = [fetched EXCEPT ![c] = out]
        /\ IF out.err # NoErr
            THEN /\ result' = [result EXCEPT ![c] = out]
                 /\ pc' = [pc EXCEPT ![c] = "done"]
            ELSE /\ pc' = [pc EXCEPT ![c] = "setting"]
                 /\ UNCHANGED result
    /\ fnCalls' = [fnCalls EXCEPT ![Fg(c)] = @ + 1]
    /\ UNCHANGED <<store, sfm, call, joined, key, typ, loggerArg, ctx, probe, cached,
                   logged, rpc, wb, setCalls, serial>>
    /\ UNCHANGED ttlVars
    /\ UNCHANGED rpcVars
    /\ UNCHANGED unitVars

\* Lines 113-117: cache.Set(ctx, ...) before the return; its error is
\* returned in place of the value.
WrapperSet(c) ==
    /\ pc[c] = "setting"
    /\ \E ok \in SetOutcomes :
        /\ store' = IF ok THEN [store EXCEPT ![key[c]] = fetched[c].val] ELSE store
        /\ result' = [result EXCEPT ![c] =
                IF ok THEN fetched[c] ELSE [val |-> ZeroValue, err |-> ErrStore]]
    /\ setCalls' = setCalls \cup {Fg(c)}
    /\ pc' = [pc EXCEPT ![c] = "done"]
    /\ UNCHANGED <<sfm, call, joined, key, typ, loggerArg, ctx, probe, cached, logged,
                   fetched, rpc, wb, fnCalls, serial>>
    /\ UNCHANGED ttlVars
    /\ UNCHANGED rpcVars
    /\ UNCHANGED unitVars

\* Lines 94-103: the goroutine of a hit: fn(context.Background()) and, when
\* it returned a value, cache.Set; both errors are only logged.
WrapperBackground(c) ==
    /\ rpc[c] = "computing"
    /\ \E out \in {[val |-> v, err |-> NoErr] : v \in Values}
                    \cup {[val |-> ZeroValue, err |-> ErrCompute]} :
        IF out.err # NoErr
            THEN UNCHANGED <<store, setCalls>>
            ELSE /\ \E ok \in SetOutcomes :
                    store' = IF ok THEN [store EXCEPT ![key[c]] = out.val] ELSE store
                 /\ setCalls' = setCalls \cup {Bg(c)}
    /\ fnCalls' = [fnCalls EXCEPT ![Bg(c)] = @ + 1]
    /\ rpc' = [rpc EXCEPT ![c] = "done"]
    /\ UNCHANGED <<sfm, call, joined, pc, key, typ, loggerArg, ctx, probe, cached, logged,
                   fetched, result, wb, serial>>
    /\ UNCHANGED ttlVars
    /\ UNCHANGED rpcVars
    /\ UNCHANGED unitVars

\* The caller's context becomes done while its call is in progress.
WrapperCancel(c) ==
    /\ pc[c] \in {"computing", "setting"}
    /\ ctx[c] = "live"
    /\ ctx' = [ctx EXCEPT ![c] = "canceled"]
    /\ UNCHANGED <<store, sfm, call, joined, pc, key, typ, loggerArg, probe, cached, logged,
                   fetched, result, rpc, wb, fnCalls, setCalls, serial>>
    /\ UNCHANGED ttlVars
    /\ UNCHANGED rpcVars
    /\ UNCHANGED unitVars

NextWrapper ==
    \E c \in Callers :
        \/ WrapperGet(c)
        \/ WrapperFetch(c)
        \/ WrapperSet(c)
        \/ WrapperBackground(c)
        \/ WrapperCancel(c)

\* Callers of the functions made by pkg/cache.FindAndCache.
SpecWrapper == InitDetached /\ [][NextWrapper]_vars


\* ---------------------------------------------------------------- TTL of the writes
\* TTLs (seconds) a handler set may be constructed with.
TTLInputs == {-60, 0, 5, 15, 60, 300, 600}

InitTTL ==
    /\ InitCore
    /\ store = [k \in Keys |-> Absent]
    /\ ttlArg \in TTLInputs
    /\ cacheTTL = 0
    /\ setTTL = 0
    /\ setSite = "none"

\* Faulty variant of NewGRPCHandlers: the TTL is kept whatever it is.
NewGRPCHandlers_KeepsAnyTTL ==
    /\ cacheTTL = 0
    /\ cacheTTL' = ttlArg
    /\ UNCHANGED <<ttlArg, setTTL, setSite>>
    /\ UNCHANGED coreVars
    /\ UNCHANGED rpcVars
    /\ UNCHANGED unitVars

\* NewGRPCHandlers: a TTL <= 0 is replaced by defaultCacheDuration.
NewGRPCHandlers ==
    /\ cacheTTL = 0
    /\ cacheTTL' = IF ttlArg <= 0 THEN defaultCacheDuration ELSE ttlArg
    /\ UNCHANGED <<ttlArg, setTTL, setSite>>
    /\ UNCHANGED coreVars
    /\ UNCHANGED rpcVars
    /\ UNCHANGED unitVars

\* Lines 118-119: the expiration the write-back goroutine passes to c.Set
\* for a handler's call, which passes s.cacheTTL as ttl.
SetOnMiss ==
    /\ cacheTTL # 0
    /\ \E r \in Intn(jitterSpan) : setTTL' = addTTLJitter(cacheTTL, r)
    /\ setSite' = "miss"
    /\ UNCHANGED <<ttlArg, cacheTTL>>
    /\ UNCHANGED coreVars
    /\ UNCHANGED rpcVars
    /\ UNCHANGED unitVars

\* Lines 82-83: the expiration the refresh passes to c.Set.
SetOnRefresh ==
    /\ cacheTTL # 0
    /\ \E r \in Intn(jitterSpan) : setTTL' = addTTLJitter(cacheTTL, r)
    /\ setSite' = "refresh"
    /\ UNCHANGED <<ttlArg, cacheTTL>>
    /\ UNCHANGED coreVars
    /\ UNCHANGED rpcVars
    /\ UNCHANGED unitVars

NextTTL ==
    \/ NewGRPCHandlers
    \/ SetOnMiss
    \/ SetOnRefresh

SpecTTL == InitTTL /\ [][NextTTL]_vars

\* ---------------------------------------------------------------- direct TTL
\* FindAndCache called with any ttl, not through a handler set: ttlArg is
\* the ttl argument of the call.
InitDirectTTL ==
    /\ InitCore
    /\ store = [k \in Keys |-> Absent]
    /\ ttlArg \in TTLInputs
    /\ cacheTTL = 0
    /\ setTTL = 0
    /\ setSite = "none"

\* Lines 118-119: the expiration the write-back goroutine passes to c.Set.
DirectSetOnMiss ==
    /\ \E r \in Intn(jitterSpan) : setTTL' = addTTLJitter(ttlArg, r)
    /\ setSite' = "miss"
    /\ UNCHANGED <<ttlArg, cacheTTL>>
    /\ UNCHANGED coreVars
    /\ UNCHANGED rpcVars
    /\ UNCHANGED unitVars

\* Lines 82-83: the expiration the refresh passes to c.Set.
DirectSetOnRefresh ==
    /\ \E r \in Intn(jitterSpan) : setTTL' = addTTLJitter(ttlArg, r)
    /\ setSite' = "refresh"
    /\ UNCHANGED <<ttlArg, cacheTTL>>
    /\ UNCHANGED coreVars
    /\ UNCHANGED rpcVars
    /\ UNCHANGED unitVars

NextDirectTTL ==
    \/ DirectSetOnMiss
    \/ DirectSetOnRefresh

SpecDirectTTL == InitDirectTTL /\ [][NextDirectTTL]_vars


\* ---------------------------------------------------------------- handlers
\* The four RPC handlers; each passes its own name as op to handleError.
Handlers == {"GetOverallQualityScore", "GetScoresByTicket",
             "GetPeriodOverPeriodScoreChange", "GetAggregatedCategoryScores"}

\* Instants, in hours since the Unix epoch. ZeroTime is time.Time{}, the
\* instant IsZero reports: 0001-01-01T00:00:00Z; the others are the epoch,
\* 2025-01-01T00:00Z, 2025-01-01T12:00Z and 2025-01-31T00:00Z.
ZeroTime == -17259888
EpochTime == 0
Jan01 == 482136
Jan01Noon == 482148
Jan31 == 482856
TimeInputs == {ZeroTime, EpochTime, Jan01, Jan01Noon, Jan31}

IsZero(t) == t = ZeroTime
Before(t, u) == t < u

StatusOK == [code |-> "OK", msg |-> ""]

\* Faulty variant of parseAndValidate: the end date must be strictly after
\* the start date.
parseAndValidate_RejectsEqualDates(start, end) ==
    IF IsZero(start) \/ IsZero(end)
        THEN [code |-> "InvalidArgument", msg |-> "start and end dates are required"]
    ELSE IF ~Before(start, end)
        THEN [code |-> "InvalidArgument", msg |-> "end date must be after start date"]
    ELSE StatusOK

\* parseAndValidate on the instants AsTime gave: the status it returns as
\* err, StatusOK standing for a nil err.
parseAndValidate(start, end) ==
    IF IsZero(start) \/ IsZero(end)
        THEN [code |-> "InvalidArgument", msg |-> "start and end dates are required"]
    ELSE IF Before(end, start)
        THEN [code |-> "InvalidArgument", msg |-> "end date must be after start date"]
    ELSE StatusOK

\* Errors FindAndCache may return to a handler: the text and the sentinels
\* errors.Is finds in the chain. The scoring service returns ErrNoRatings
\* bare or wrapped with %w, wraps ErrStorageFailure with %w, or wraps the
\* storage's error alone; fn may return its context's error; FindAndCache
\* adds the type mismatch; the last two are an error that only quotes the
\* text of a sentinel and one that joins both sentinels.
ErrorInputs ==
    {[text |-> "no ratings found", is |-> {"ErrNoRatings"}],
     [text |-> "current score: no ratings found", is |-> {"ErrNoRatings"}],
     [text |-> "storage failure: db", is |-> {"ErrStorageFailure"}],
     [text |-> "fetch scores by ticket: db", is |-> {}],
     [text |-> ErrCanceled, is |-> {}],
     [text |-> ErrTypeMismatch, is |-> {}],
     [text |-> "wrapped: no ratings found", is |-> {}],
     [text |-> "no ratings found; storage failure",
      is |-> {"ErrNoRatings", "ErrStorageFailure"}]}

\* errors.Is(err, target).
ErrorsIs(err, target) == target \in err.is

\* Faulty variant of handleError: the error is classified before the
\* context is looked at.
handleError_ErrorFirst(ctxErr, op, err) ==
    IF ErrorsIs(err, "ErrNoRatings")
        THEN [code |-> "NotFound", msg |-> "no ratings found for the given period"]
    ELSE IF ErrorsIs(err, "ErrStorageFailure")
        THEN [code |-> "Internal", msg |-> "database error"]
    ELSE IF ctxErr = ErrCanceled
        THEN [code |-> "Canceled", msg |-> "request canceled"]
    ELSE IF ctxErr = ErrDeadline
        THEN [code |-> "DeadlineExceeded", msg |-> "request timed out"]
    ELSE [code |-> "Internal", msg |-> op \o " failed: " \o err.text]

\* handleError(ctx, op, err), ctxErr being ctx.Err().
handleError(ctxErr, op, err) ==
    IF ctxErr = ErrCanceled
        THEN [code |-> "Canceled", msg |-> "request canceled"]
    ELSE IF ctxErr = ErrDeadline
        THEN [code |-> "DeadlineExceeded", msg |-> "request timed out"]
    ELSE IF ErrorsIs(err, "ErrNoRatings")
        THEN [code |-> "NotFound", msg |-> "no ratings found for the given period"]
    ELSE IF ErrorsIs(err, "ErrStorageFailure")
        THEN [code |-> "Internal", msg |-> "database error"]
    ELSE [code |-> "Internal", msg |-> op \o " failed: " \o err.text]

\* A request arrives at one of the handlers.
InitHandler ==
    /\ InitCalls
    /\ store = [k \in Keys |-> Absent]
    /\ typ = [c \in Callers |-> "float64"]
    /\ loggerArg = "zap"
    /\ ttlArg = appCacheTTL
    /\ cacheTTL = appCacheTTL
    /\ setTTL = 0
    /\ setSite = "none"
    /\ req \in [handler : Handlers, start : TimeInputs, end : TimeInputs]
    /\ hpc = "received"
    /\ hctx = CtxLive
    /\ herr = NoError
    /\ hcalls = [get |-> 0, scoring |-> 0]
    /\ rsp = NoStatus
    /\ NoUnit

\* The handler up to its call of FindAndCache: a request parseAndValidate
\* rejects is answered at once; otherwise the 10 s context is derived and
\* FindAndCache is entered.
HandlerValidate ==
    /\ hpc = "received"
    /\ IF parseAndValidate(req.start, req.end) # StatusOK
        THEN /\ rsp' = parseAndValidate(req.start, req.end)
             /\ hpc' = "responded"
        ELSE /\ hpc' = "validated"
             /\ UNCHANGED rsp
    /\ UNCHANGED <<req, hctx, herr, hcalls>>
    /\ UNCHANGED coreVars
    /\ UNCHANGED ttlVars
    /\ UNCHANGED unitVars

\* The handler's context becomes done, by the client's cancellation or by
\* a deadline, before handleError reads it.
HandlerCtxDone ==
    /\ hpc \in {"validated", "returned"}
    /\ hctx = CtxLive
    /\ hctx' \in {ErrCanceled, ErrDeadline}
    /\ UNCHANGED <<req, hpc, herr, hcalls, rsp>>
    /\ UNCHANGED coreVars
    /\ UNCHANGED ttlVars
    /\ UNCHANGED unitVars

\* FindAndCache as the handler sees it: one c.Get, at most one call of the
\* scoring service (none on a hit or when joining a computation), and a
\* value or an error back.
HandlerFindAndCache ==
    /\ hpc = "validated"
    /\ herr' \in ErrorInputs \cup {NoError}
    /\ \E n \in {0, 1} : hcalls' = [get |-> 1, scoring |-> n]
    /\ hpc' = "returned"
    /\ UNCHANGED <<req, hctx, rsp>>
    /\ UNCHANGED coreVars
    /\ UNCHANGED ttlVars
    /\ UNCHANGED unitVars

\* The handler's return: the response, or the status handleError makes of
\* the error.
HandlerRespond ==
    /\ hpc = "returned"
    /\ rsp' = IF herr = NoError THEN StatusOK
                ELSE handleError(hctx, req.handler, herr)
    /\ hpc' = "responded"
    /\ UNCHANGED <<req, hctx, herr, hcalls>>
    /\ UNCHANGED coreVars
    /\ UNCHANGED ttlVars
    /\ UNCHANGED unitVars

NextHandler ==
    \/ HandlerValidate
    \/ HandlerCtxDone
    \/ HandlerFindAndCache
    \/ HandlerRespond

SpecHandler == InitHandler /\ [][NextHandler]_vars


\* ---------------------------------------------------------------- timestamps
\* The timestamp fields of a request: a nil *timestamppb.Timestamp for a
\* field that is not set, or a timestamp of an instant.
NilTimestamp == [set |-> FALSE, at |-> 0]
Timestamps == {NilTimestamp} \cup {[set |-> TRUE, at |-> t] : t \in TimeInputs}

\* (*Timestamp).AsTime: time.Unix(x.GetSeconds(), x.GetNanos()).UTC(), and
\* the getters of a nil timestamp return 0.
AsTime(ts) == IF ts.set THEN ts.at ELSE EpochTime

InitRequest ==
    /\ InitCalls
    /\ store = [k \in Keys |-> Absent]
    /\ typ = [c \in Callers |-> "float64"]
    /\ loggerArg = "zap"
    /\ ttlArg = appCacheTTL
    /\ cacheTTL = appCacheTTL
    /\ setTTL = 0
    /\ setSite = "none"
    /\ req \in [handler : Handlers, start : Timestamps, end : Timestamps]
    /\ hpc = "received"
    /\ hctx = CtxLive
    /\ herr = NoError
    /\ hcalls = [get |-> 0, scoring |-> 0]
    /\ rsp = NoStatus
    /\ NoUnit

\* Lines 57-58 and the handler's first lines: the two fields go through
\* AsTime and the instants through the validation.
HandlerParseAndValidate ==
    /\ hpc = "received"
    /\ LET st == parseAndValidate(AsTime(req.start), AsTime(req.end))
       IN IF st # StatusOK
            THEN /\ rsp' = st
                 /\ hpc' = "responded"
            ELSE /\ hpc' = "validated"
                 /\ UNCHANGED rsp
    /\ UNCHANGED <<req, hctx, herr, hcalls>>
    /\ UNCHANGED coreVars
    /\ UNCHANGED ttlVars
    /\ UNCHANGED unitVars

NextRequest ==
    \/ HandlerParseAndValidate
    \/ HandlerCtxDone
    \/ HandlerFindAndCache
    \/ HandlerRespond

\* One request, with its timestamp fields as they arrive, through a handler.
SpecRequest == InitRequest /\ [][NextRequest]_vars


\* Faulty variant of KeyPrefix: every handler caches under one prefix.
KeyPrefix_OnePrefix(h) == "grpc:scores"


\* ---------------------------------------------------------------- normalizeKey
\* The CacheKeyType each handler passes to normalizeKey.
KeyPrefix(h) ==
    CASE h = "GetOverallQualityScore" -> "grpc:overall_quality_score"
      [] h = "GetScoresByTicket" -> "grpc:scores_by_ticket"
      [] h = "GetPeriodOverPeriodScoreChange" -> "grpc:period_over_period_score_change"
      [] h = "GetAggregatedCategoryScores" -> "grpc:aggregated_category_scores"

\* A time.Time: the instant `at` in hours since the Unix epoch and the
\* offset `zone` of its location from UTC in hours.
At(h, z) == [at |-> h, zone |-> z]

\* 2025-01-01 at 00:00, 12:00 and 23:00 UTC, 2025-01-02 at 01:00 UTC, the
\* same instant as 2025-01-01 20:00 in New York, and 2025-01-31 00:00 UTC.
KeyTimes ==
    {At(Jan01, 0), At(Jan01Noon, 0), At(Jan01 + 23, 0), At(Jan01 + 25, 0),
     At(Jan01 + 25, -5), At(Jan31, 0)}

\* t.UTC(): the same instant in the UTC location.
UTC(t) == [t EXCEPT !.zone = 0]

\* t.Truncate(24 * time.Hour): the instant rounded down to a multiple of 24
\* hours since the zero time, whatever the location.
Truncate24h(t) == [t EXCEPT !.at = t.at - ((t.at - ZeroTime) % 24)]

\* Number n in at least w decimal digits, w being 2 or 4.
Pad(n, w) ==
    (IF w = 4 /\ n < 10 THEN "000"
     ELSE IF w = 4 /\ n < 100 THEN "00"
     ELSE IF w = 4 /\ n < 1000 THEN "0"
     ELSE IF w = 2 /\ n < 10 THEN "0"
     ELSE "") \o ToString(n)

\* t.Format("2006-01-02"): the civil date of the wall clock of t in its
\* location, from the count of days since 1970-01-01.
Format(t) ==
    LET z == ((t.at + t.zone) \div 24) + 719468
        era == z \div 146097
        doe == z - era * 146097
        yoe == (doe - doe \div 1460 + doe \div 36524 - doe \div 146096) \div 365
        doy == doe - (365 * yoe + yoe \div 4 - yoe \div 100)
        mp == (5 * doy + 2) \div 153
        d == doy - ((153 * mp + 2) \div 5) + 1
        m == IF mp < 10 THEN mp + 3 ELSE mp - 9
        y == yoe + era * 400 + (IF m <= 2 THEN 1 ELSE 0)
    IN Pad(y, 4) \o "-" \o Pad(m, 2) \o "-" \o Pad(d, 2)

\* Faulty variant of normalizeKey: the times are not converted to UTC.
normalizeKey_NoUTC(prefix, start, end) ==
    prefix \o ":" \o Format(Truncate24h(start))
           \o ":" \o Format(Truncate24h(end))

\* Faulty variant of normalizeKey: the key names the end date only.
normalizeKey_EndDateOnly(prefix, start, end) ==
    prefix \o ":" \o Format(Truncate24h(UTC(end)))


\* normalizeKey(prefix, start, end).
normalizeKey(prefix, start, end) ==
    prefix \o ":" \o Format(Truncate24h(UTC(start)))
           \o ":" \o Format(Truncate24h(UTC(end)))

\* Two requests, each to any handler with any start and end.
KeyRequests == [handler : Handlers, start : KeyTimes, end : KeyTimes]

InitKey ==
    /\ InitCalls
    /\ store = [k \in Keys |-> Absent]
    /\ typ = [c \in Callers |-> "float64"]
    /\ loggerArg = "zap"
    /\ NoRequest
    /\ ttlArg = appCacheTTL
    /\ cacheTTL = appCacheTTL
    /\ setTTL = 0
    /\ setSite = "none"
    /\ kin \in KeyRequests \X KeyRequests
    /\ kout = <<>>
    /\ NoClose
    /\ NoPeriod
    /\ NoDB

\* Each handler computes the cache key of its request (handlers.go:111).
NormalizeKeys ==
    /\ kout = <<>>
    /\ kout' = <<normalizeKey(KeyPrefix(kin[1].handler), kin[1].start, kin[1].end),
                 normalizeKey(KeyPrefix(kin[2].handler), kin[2].start, kin[2].end)>>
    /\ UNCHANGED kin
    /\ UNCHANGED <<closeVars, periodVars, dbVars>>
    /\ UNCHANGED coreVars
    /\ UNCHANGED ttlVars
    /\ UNCHANGED rpcVars

NextKey == NormalizeKeys

SpecKey == InitKey /\ [][NextKey]_vars


\* ---------------------------------------------------------------- served requests
\* The type parameter each handler instantiates FindAndCache with: the
\* result type of the closure it passes.
ValueType(h) ==
    CASE h = "GetOverallQualityScore" -> "float64"
      [] h = "GetScoresByTicket" -> "[]TicketScores"
      [] h = "GetPeriodOverPeriodScoreChange" -> "PeriodChange"
      [] h = "GetAggregatedCategoryScores" -> "[]AggregatedCategoryScores"

\* Requests that reach FindAndCache: the overall score from 2025-01-01 at
\* 00:00 and at 12:00 UTC and from 2025-01-02 at 01:00 UTC, and the period
\* change, the scores by ticket and the category scores from 2025-01-01 at
\* 00:00 UTC, each up to 2025-01-31.
ServedRequests ==
    {[handler |-> "GetOverallQualityScore", start |-> At(Jan01, 0), end |-> At(Jan31, 0)],
     [handler |-> "GetOverallQualityScore", start |-> At(Jan01Noon, 0), end |-> At(Jan31, 0)],
     [handler |-> "GetOverallQualityScore", start |-> At(Jan01 + 25, 0), end |-> At(Jan31, 0)],
     [handler |-> "GetPeriodOverPeriodScoreChange", start |-> At(Jan01, 0),
      end |-> At(Jan31, 0)],
     [handler |-> "GetScoresByTicket", start |-> At(Jan01, 0), end |-> At(Jan31, 0)],
     [handler |-> "GetAggregatedCategoryScores", start |-> At(Jan01, 0),
      end |-> At(Jan31, 0)]}

\* cacheKey := normalizeKey(<the handler's prefix>, start, end).
CacheKey(r) == normalizeKey(KeyPrefix(r.handler), r.start, r.end)

\* The store entry and singleflight slot a key string names: the key of the
\* first caller is entry k1, any other key is entry k2.
Slot(s) == IF s = kout[1] THEN "k1" ELSE "k2"

\* What the closure of caller c returns when the scoring service succeeds:
\* GetOverallScore(fetchCtx, start, end) and its siblings for the start and
\* end of c's own request. The values tell the first caller's computation
\* from the others'.
OwnValue(c) == IF c = 1 THEN "v1" ELSE "v2"

\* Every caller is a handler holding a validated request and the key made of
\* it, about to call FindAndCache with its own value type; the store is
\* empty. The callers use no more keys than the store has entries.
InitServed ==
    /\ InitCalls
    /\ store = [k \in Keys |-> Absent]
    /\ kin \in [Callers -> ServedRequests]
    /\ kout = [c \in Callers |-> CacheKey(kin[c])]
    /\ Cardinality({CacheKey(kin[c]) : c \in Callers}) <= Cardinality(Keys)
    /\ typ = [c \in Callers |-> ValueType(kin[c].handler)]
    /\ loggerArg = "zap"
    /\ NoRequest
    /\ NoClose
    /\ NoPeriod
    /\ NoDB
    /\ ttlArg = appCacheTTL
    /\ cacheTTL = appCacheTTL
    /\ setTTL = 0
    /\ setSite = "none"

\* FindAndCache(ctx, s.cache, &s.sfGroup, string(cacheKey), ...): the probe
\* reads the entry of the handler's own key.
ServedProbe(c) ==
    /\ Probe(c)
    /\ key'[c] = Slot(kout[c])

\* The closure of the handler returns inside the leader's sf.Do.
ServedComputeReturn(c) ==
    /\ ComputeReturn(c)
    /\ fetched'[c].err = NoErr => fetched'[c].val = OwnValue(c)

\* The same closure returns inside the refresh call.
ServedRefreshCompute(c) ==
    /\ RefreshCompute(c)
    /\ rpc'[c] = "setting" => call'[Bg(c)].val = OwnValue(c)

NextServed ==
    \E c \in Callers :
        \/ ServedProbe(c)
        \/ DoEnter(c)
        \/ ServedComputeReturn(c)
        \/ WaitReturn(c)
        \/ WriteBack(c)
        \/ RefreshEnter(c)
        \/ ServedRefreshCompute(c)
        \/ RefreshSet(c)

\* Requests to the handlers, served through the cache under their own keys.
\* A refresh that joined another one gets nothing but sf.Do's discarded
\* result; its return is left to the other specifications.
SpecServed == InitServed /\ [][NextServed]_vars



\* ---------------------------------------------------------------- period change
\* Scores GetOverallScore may return; with them every percentage below is a
\* whole number.
Scores == {0, 20, 40, 80}

\* fmt.Errorf(prefix + ": %w", err).
Wrap(prefix, err) == [text |-> prefix \o ": " \o err.text, is |-> err.is]

\* What GetOverallScore returns: a score, ErrNoRatings for a period without
\* ratings, or ErrStorageFailure wrapped around the storage's error.
ScoreOutcomes ==
    {[score |-> x, err |-> NoError] : x \in Scores}
        \cup {[score |-> 0, err |-> e] : e \in
                {[text |-> "no ratings found", is |-> {"ErrNoRatings"}],
                 [text |-> "storage failure: db", is |-> {"ErrStorageFailure"}],
                 [text |-> "storage failure: context deadline exceeded",
                  is |-> {"ErrStorageFailure"}]}}

\* PeriodChange{} and a PeriodChange with its three fields.
NoChange == [current |-> 0, previous |-> 0, change |-> 0]
PeriodChange(c, p, ch) == [current |-> c, previous |-> p, change |-> ch]

\* Lines 248-253: the change in percent of the previous score.
ChangePercentage(c, p) ==
    IF p > 0 THEN ((c - p) * 100) \div p
    ELSE IF c > 0 THEN 100
    ELSE 0

InitPeriod ==
    /\ InitCalls
    /\ store = [k \in Keys |-> Absent]
    /\ typ = [c \in Callers |-> "PeriodChange"]
    /\ loggerArg = "zap"
    /\ NoRequest
    /\ NoKey
    /\ NoClose
    /\ NoDB
    /\ ttlArg = appCacheTTL
    /\ cacheTTL = appCacheTTL
    /\ setTTL = 0
    /\ setSite = "none"
    /\ pin \in [cur : ScoreOutcomes, prev : ScoreOutcomes]
    /\ ppc = "start"
    /\ pqueries = <<>>
    /\ pout = <<>>

\* Lines 227-230: the current period is queried; its error is returned
\* wrapped.
PeriodQueryCurrent ==
    /\ ppc = "start"
    /\ pqueries' = Append(pqueries, "current")
    /\ IF pin.cur.err # NoError
        THEN /\ pout' = [value |-> NoChange, err |-> Wrap("current score", pin.cur.err)]
             /\ ppc' = "done"
        ELSE /\ ppc' = "current"
             /\ UNCHANGED pout
    /\ UNCHANGED pin
    /\ UNCHANGED <<keyVars, closeVars, dbVars>>
    /\ UNCHANGED coreVars
    /\ UNCHANGED ttlVars
    /\ UNCHANGED rpcVars

\* Faulty variant of PeriodQueryPrevious: a previous period without ratings
\* is an error like any other.
PeriodQueryPrevious_NoRatingsIsError ==
    /\ ppc = "current"
    /\ pqueries' = Append(pqueries, "previous")
    /\ pout' =
        IF pin.prev.err # NoError
            THEN [value |-> NoChange, err |-> Wrap("previous score", pin.prev.err)]
        ELSE [value |-> PeriodChange(pin.cur.score, pin.prev.score,
                            ChangePercentage(pin.cur.score, pin.prev.score)),
              err |-> NoError]
    /\ ppc' = "done"
    /\ UNCHANGED pin
    /\ UNCHANGED <<keyVars, closeVars, dbVars>>
    /\ UNCHANGED coreVars
    /\ UNCHANGED ttlVars
    /\ UNCHANGED rpcVars

\* Lines 232-260: the previous period is queried and the result is made.
PeriodQueryPrevious ==
    /\ ppc = "current"
    /\ pqueries' = Append(pqueries, "previous")
    /\ pout' =
        IF ErrorsIs(pin.prev.err, "ErrNoRatings")
            THEN [value |-> PeriodChange(pin.cur.score, 0, 100), err |-> NoError]
        ELSE IF pin.prev.err # NoError
            THEN [value |-> NoChange, err |-> Wrap("previous score", pin.prev.err)]
        ELSE [value |-> PeriodChange(pin.cur.score, pin.prev.score,
                            ChangePercentage(pin.cur.score, pin.prev.score)),
              err |-> NoError]
    /\ ppc' = "done"
    /\ UNCHANGED pin
    /\ UNCHANGED <<keyVars, closeVars, dbVars>>
    /\ UNCHANGED coreVars
    /\ UNCHANGED ttlVars
    /\ UNCHANGED rpcVars

NextPeriod ==
    \/ PeriodQueryCurrent
    \/ PeriodQueryPrevious

SpecPeriod == InitPeriod /\ [][NextPeriod]_vars


\* ---------------------------------------------------------------- database.New
\* The largest RetryAttempts option tried.
MaxRetryAttempts == 4

\* RetryDelay options, in seconds.
RetryDelays == {1, 2, 5}

\* database.New at the head of its loop, with the options it was given.
InitDB ==
    /\ InitCalls
    /\ store = [k \in Keys |-> Absent]
    /\ typ = [c \in Callers |-> "float64"]
    /\ loggerArg = "zap"
    /\ NoRequest
    /\ NoKey
    /\ NoClose
    /\ NoPeriod
    /\ ttlArg = appCacheTTL
    /\ cacheTTL = appCacheTTL
    /\ setTTL = 0
    /\ setSite = "none"
    /\ \E n \in 0..MaxRetryAttempts : \E d \in RetryDelays :
        db = [pc |-> "loop", RetryAttempts |-> n, RetryDelay |-> d, i |-> 0,
              tried |-> <<>>, waits |-> <<>>, ret |-> "none"]

\* Lines 84-99: sql.Open and db.Ping; the pool is returned when both
\* succeed.
DBAttempt ==
    /\ db.pc = "loop"
    /\ db.i < db.RetryAttempts
    /\ \E out \in {"ok", "open failed", "ping failed"} :
        db' = [db EXCEPT !.tried = Append(@, out),
                         !.pc = IF out = "ok" THEN "done" ELSE "failed",
                         !.ret = IF out = "ok" THEN "pool" ELSE @]
    /\ UNCHANGED <<keyVars, closeVars, periodVars>>
    /\ UNCHANGED coreVars
    /\ UNCHANGED ttlVars
    /\ UNCHANGED rpcVars

\* Lines 102-105 and i++: the sleep after a failed attempt that is not the
\* last one.
DBBackoff ==
    /\ db.pc = "failed"
    /\ db' = [db EXCEPT !.waits = IF db.i < db.RetryAttempts - 1
                                    THEN Append(@, (db.i + 1) * db.RetryDelay)
                                    ELSE @,
                         !.i = @ + 1,
                         !.pc = "loop"]
    /\ UNCHANGED <<keyVars, closeVars, periodVars>>
    /\ UNCHANGED coreVars
    /\ UNCHANGED ttlVars
    /\ UNCHANGED rpcVars

\* Line 108: the loop ran out of attempts.
DBGiveUp ==
    /\ db.pc = "loop"
    /\ db.i >= db.RetryAttempts
    /\ db' = [db EXCEPT !.pc = "done", !.ret = "error"]
    /\ UNCHANGED <<keyVars, closeVars, periodVars>>
    /\ UNCHANGED coreVars
    /\ UNCHANGED ttlVars
    /\ UNCHANGED rpcVars

NextDB ==
    \/ DBAttempt
    \/ DBBackoff
    \/ DBGiveUp

SpecDB == InitDB /\ [][NextDB]_vars


TypeOK ==
    /\ store \in [Keys -> Values \cup {Absent, OldValue}]
    /\ sfm \in [GroupKeys -> Procs \cup {NoProc}]
    /\ pc \in [Callers -> {"start", "miss", "computing", "waiting", "setting", "done",
                         "panic"}]
    /\ loggerArg \in {"nil", "zap"}
    /\ ctx \in [Callers -> {"live", "canceled"}]
    /\ rpc \in [Callers -> {"none", "sleeping", "computing", "setting", "waiting", "done"}]
    /\ wb \in [Callers -> {"none", "pending", "ok", "failed"}]

\* ================================================================ properties
\* Callers that went through sf.Do and have returned.
MissDone == {c \in Callers : pc[c] = "done" /\ joined[Fg(c)] # NoProc}

\* Foreground leaders whose fn has returned.
LedDone == {l \in Callers : pc[l] = "done" /\ joined[Fg(l)] = Fg(l)}

\* ---------------------------------------------------------------- C1
\* C1 as stated: when all calls ask for the same key, each probe finds no
\* entry, the store never gets one, and every call began before any returned
\* (their executions overlap pairwise), fn was invoked exactly once and all
\* callers hold the same (value, error).
C1_OverlappingCallsComputeOnce ==
    (/\ ~serial
     /\ \E k \in Keys :
            /\ store[k] = Absent
            /\ \A c \in Callers :
                pc[c] = "done" /\ key[c] = k /\ probe[c] = "notfound")
    => /\ Cardinality({c \in Callers : fnCalls[Fg(c)] > 0}) = 1
       /\ \A c, d \in Callers : result[c] = result[d]

\* C1 amended: calls for a key that enter sf.Do while a computation for it
\* is in flight join that computation; among the callers of one computation
\* fn is invoked exactly once, by the one that registered it, and each of
\* them returns the (value, error) that invocation produced.
C1_JoinedCallsShareOneInvocation ==
    \A c \in Callers :
        /\ pc[c] = "computing" =>
            /\ sfm[key[c]] = Fg(c)
            /\ joined[Fg(c)] = Fg(c)
            /\ fnCalls[Fg(c)] = 1
        /\ pc[c] = "waiting" =>
            /\ joined[Fg(c)] \in Callers \ {c}
            /\ key[joined[Fg(c)]] = key[c]
            /\ fnCalls[Fg(c)] = 0
            /\ call[joined[Fg(c)]].state \in {"active", "done"}
            /\ call[joined[Fg(c)]].state = "active" => sfm[key[c]] = joined[Fg(c)]
        /\ c \in MissDone =>
            /\ joined[Fg(c)] \in LedDone
            /\ fnCalls[Fg(c)] = (IF joined[Fg(c)] = Fg(c) THEN 1 ELSE 0)
            /\ result[c] = fetched[joined[Fg(c)]]

\* Two callers of one computation have both returned its value.
C1_Witness ==
    \E c, d \in Callers :
        /\ c # d
        /\ {c, d} \subseteq MissDone
        /\ joined[Fg(c)] = Fg(c)
        /\ joined[Fg(d)] = Fg(c)
        /\ result[c].err = NoErr
        /\ result[d] = result[c]

\* ---------------------------------------------------------------- C2
\* C2: a caller whose probe succeeded has returned exactly the value the
\* probe read, without error, without entering the group and without
\* invoking fn or spawning a write-back; whatever the refresh it spawned does
\* later leaves that result as it is.
C2_HitReturnsProbedValueWithoutCompute ==
    \A c \in Callers :
        probe[c] = "hit" =>
            /\ pc[c] = "done"
            /\ cached[c] \in Values \cup {OldValue}
            /\ result[c] = [val |-> cached[c], err |-> NoErr]
            /\ joined[Fg(c)] = NoProc
            /\ fnCalls[Fg(c)] = 0
            /\ fetched[c] = NoResult
            /\ wb[c] = "none"
            /\ rpc[c] # "none"

\* After a hit the spawned refresh has invoked fn and overwritten the entry
\* with another value than the one the caller got.
C2_Witness ==
    \E c \in Callers :
        /\ probe[c] = "hit"
        /\ rpc[c] = "done"
        /\ fnCalls[Bg(c)] = 1
        /\ Bg(c) \in setCalls
        /\ store[key[c]] # result[c].val

\* ---------------------------------------------------------------- C3
\* C3: when fn returned an error to the leader of a foreground computation,
\* the leader and every caller that joined it return that error with the
\* zero value, and no write-back was spawned and no c.Set issued for it.
C3_ComputeErrorReachesAllAndWritesNothing ==
    \A l \in LedDone :
        fetched[l].err # NoErr =>
            /\ wb[l] = "none"
            /\ Fg(l) \notin setCalls
            /\ \A c \in MissDone :
                joined[Fg(c)] = Fg(l) =>
                    result[c] = [val |-> ZeroValue, err |-> fetched[l].err]

\* A leader and a joined caller both returned the compute error E and the
\* key is still absent from the store.
C3_Witness ==
    \E l, c \in Callers :
        /\ l # c
        /\ {l, c} \subseteq MissDone
        /\ joined[Fg(l)] = Fg(l)
        /\ joined[Fg(c)] = Fg(l)
        /\ fetched[l].err = ErrCompute
        /\ result[c].err = ErrCompute
        /\ store[key[l]] = Absent

\* ---------------------------------------------------------------- C4
\* C4: when fn returned a value to the leader, the leader and every caller
\* that joined it return that value without error, whether the write-back is
\* still pending, succeeded or failed.
C4_ValueReturnedWhateverTheWriteBack ==
    \A l \in LedDone :
        fetched[l].err = NoErr =>
            /\ fetched[l].val \in Values
            /\ wb[l] \in {"pending", "ok", "failed"}
            /\ \A c \in MissDone :
                joined[Fg(c)] = Fg(l) =>
                    result[c] = [val |-> fetched[l].val, err |-> NoErr]

\* The write-back failed, and the leader and a joined caller hold the value.
C4_Witness ==
    \E l, c \in Callers :
        /\ l # c
        /\ {l, c} \subseteq MissDone
        /\ joined[Fg(l)] = Fg(l)
        /\ joined[Fg(c)] = Fg(l)
        /\ wb[l] = "failed"
        /\ result[c].err = NoErr
        /\ result[l].err = NoErr

\* ---------------------------------------------------------------- C5
\* C5: after a probe that did not succeed the caller logs a miss (redis.Nil)
\* or a warning (any other error), spawns no refresh, goes through sf.Do, and
\* returns exactly what the computation it led or joined produced, never the
\* store's error.
C5_FailedProbeFallsBackToCompute ==
    \A c \in Callers :
        probe[c] \in {"notfound", "error"} =>
            /\ logged[c] = (IF probe[c] = "notfound" THEN "cache miss"
                            ELSE "cache get error (treating as miss)")
            /\ rpc[c] = "none"
            /\ cached[c] = ZeroValue
            /\ pc[c] \in {"miss", "computing", "waiting", "done"}
            /\ pc[c] # "miss" => joined[Fg(c)] \in Callers
            /\ pc[c] = "done" =>
                /\ result[c] = fetched[joined[Fg(c)]]
                /\ result[c].err # ErrStore

\* One caller's probe failed on an entry that exists, another's found none,
\* and both returned the value computed.
C5_Witness ==
    \E c, d \in Callers :
        /\ probe[c] = "error"
        /\ probe[d] = "notfound"
        /\ pc[c] = "done"
        /\ pc[d] = "done"
        /\ result[c].err = NoErr
        /\ result[d].err = NoErr

\* ---------------------------------------------------------------- C6
\* C6 as stated: the expiration passed to c.Set for a nominal TTL d > 0 lies
\* within [d - 15 s, d + 15 s] and is never negative.
C6_JitteredTTLInBoundsAndNonNegative ==
    setSite # "none" =>
        /\ setTTL >= cacheTTL - jitterOffset
        /\ setTTL <= cacheTTL + jitterOffset
        /\ setTTL >= 0

\* ---------------------------------------------------------------- C7
\* C7 as stated: cancelling the context of the caller that started a
\* computation does not cancel the computation, so a caller that joined it
\* and whose own context is live never gets a cancellation error from it.
C7_LeaderCancelDoesNotCancelComputation ==
    \A c \in MissDone :
        (joined[Fg(c)] # Fg(c) /\ ctx[c] = "live") => result[c].err # ErrCanceled

\* ---------------------------------------------------------------- C8
\* C8 as stated: a caller blocked on a computation it joined, and whose own
\* context is done, returns a cancellation error.
C8_CancelledWaiterGetsCancellationError ==
    [][\A c \in Callers :
        (pc[c] = "waiting" /\ ctx[c] = "canceled" /\ pc'[c] = "done")
            => result'[c].err = ErrCanceled]_vars

\* ---------------------------------------------------------------- C9
\* C9 as stated: a caller whose context was cancelled while the computation
\* it is in sf.Do for was pending returns a cancellation error (a caller
\* that runs fn itself returns what fn makes of the cancelled context), and
\* a caller only ever gets a cancellation error when a context was cancelled
\* among the callers of its own key.
C9_CancelYieldsErrorToCancellerOnly ==
    [][\A c \in Callers :
        (pc[c] \in {"computing", "waiting"} /\ pc'[c] = "done") =>
            /\ ctx[c] = "canceled" =>
                \/ result'[c].err = ErrCanceled
                \/ pc[c] = "computing" /\ result'[c] = fetched'[c]
            /\ result'[c].err = ErrCanceled =>
                \E d \in Callers : key[d] = key[c] /\ ctx[d] = "canceled"]_vars

\* ---------------------------------------------------------------- C10
\* Processes running the function they passed to sf.Do under group key g.
Leading(g) ==
    {p \in Procs :
        \/ /\ p \in Callers
           /\ pc[p] = "computing"
           /\ key[p] = g
        \/ /\ p \notin Callers
           /\ rpc[p - NumCallers] \in {"computing", "setting"}
           /\ RefreshKey(key[p - NumCallers]) = g}

\* C10: for each group key at most one process runs the function of a call,
\* and it is the one registered in the group's map.
C10_AtMostOneLeaderPerGroupKey ==
    \A g \in GroupKeys :
        /\ Cardinality(Leading(g)) <= 1
        /\ Leading(g) = (IF sfm[g] = NoProc THEN {} ELSE {sfm[g]})

\* A second refresh of a key reached the group while the first was running
\* fn and joined it.
C10_Witness ==
    \E c, d \in Callers :
        /\ rpc[c] = "computing"
        /\ rpc[d] = "waiting"
        /\ joined[Bg(d)] = Bg(c)
        /\ Leading(RefreshKey(key[c])) = {Bg(c)}

\* ---------------------------------------------------------------- C11
\* The caller whose FindAndCache call process p belongs to.
CallerOf(p) == IF p \in Callers THEN p ELSE p - NumCallers

\* C11: the call a process entered in sf.Do is always one for its own key, a
\* caller that found no call registered for its key runs fn itself however
\* many other keys are being computed, and what a caller returns after
\* joining is the result of the call for its own key.
C11_DifferentKeysAreIndependent ==
    /\ \A p \in Procs :
        joined[p] # NoProc => key[CallerOf(joined[p])] = key[CallerOf(p)]
    /\ \A c \in Callers :
        pc[c] = "waiting" =>
            \/ sfm[key[c]] = joined[Fg(c)]
            \/ call[joined[Fg(c)]].state = "done"
    /\ \A c \in MissDone :
        (joined[Fg(c)] # Fg(c) /\ result[c].err = NoErr) =>
            /\ key[joined[Fg(c)]] = key[c]
            /\ result[c].val = fetched[joined[Fg(c)]].val

\* Two computations for different keys are running at the same time.
C11_Witness ==
    \E c, d \in Callers :
        /\ key[c] # key[d]
        /\ pc[c] = "computing"
        /\ pc[d] = "computing"
        /\ sfm[key[c]] = Fg(c)
        /\ sfm[key[d]] = Fg(d)


\* ---------------------------------------------------------------- C12
\* C12: a foreground caller only ever registers or joins a call of a
\* foreground caller, under the key itself; a refresh only ever registers or
\* joins a call of a refresh, under key + ":refresh".
C12_RefreshAndMissFillNeverCoalesce ==
    /\ \A c \in Callers :
        /\ joined[Fg(c)] \in Callers \cup {NoProc}
        /\ joined[Bg(c)] \in (Procs \ Callers) \cup {NoProc}
    /\ \A k \in Keys :
        /\ sfm[k] \in Callers \cup {NoProc}
        /\ sfm[RefreshKey(k)] \in (Procs \ Callers) \cup {NoProc}

\* A refresh and a miss-fill for the same key run their compute functions at
\* the same time, each as the leader of its own call.
C12_Witness ==
    \E c, d \in Callers :
        /\ key[c] = key[d]
        /\ rpc[c] = "computing"
        /\ pc[d] = "computing"
        /\ joined[Bg(c)] = Bg(c)
        /\ joined[Fg(d)] = Fg(d)


\* ---------------------------------------------------------------- C13
\* C13 as stated: a refresh that reaches the group while another refresh or
\* a foreground miss-fill for the same base key is in flight is dropped: it
\* does not invoke fn (and so never gets to write).
C13_RefreshDroppedBehindAnyFlight ==
    [][\A c \in Callers :
        (/\ rpc[c] = "sleeping"
         /\ rpc'[c] # "sleeping"
         /\ \/ sfm[RefreshKey(key[c])] # NoProc
            \/ sfm[key[c]] # NoProc)
            => /\ rpc'[c] = "waiting"
               /\ fnCalls'[Bg(c)] = 0]_vars

\* C13 amended: a refresh runs fn only as the call registered for its
\* refresh key, so one that reached the group while another refresh of the
\* same base key was in flight joined that one; a refresh that joined has
\* invoked fn zero times and has not called c.Set, whatever its state.
C13_RefreshBehindRefreshIsDropped ==
    \A c \in Callers :
        /\ rpc[c] \in {"computing", "setting"} =>
            sfm[RefreshKey(key[c])] = Bg(c)
        /\ joined[Bg(c)] \notin {NoProc, Bg(c)} =>
            /\ rpc[c] \in {"waiting", "done"}
            /\ key[CallerOf(joined[Bg(c)])] = key[c]
            /\ fnCalls[Bg(c)] = 0
            /\ Bg(c) \notin setCalls

\* A refresh joined another refresh of its key and ended without a compute
\* or a write, while the one it joined computed and wrote.
C13_Witness ==
    \E c, d \in Callers :
        /\ c # d
        /\ joined[Bg(d)] = Bg(c)
        /\ rpc[d] = "done"
        /\ rpc[c] = "done"
        /\ fnCalls[Bg(d)] = 0
        /\ Bg(d) \notin setCalls
        /\ fnCalls[Bg(c)] = 1
        /\ Bg(c) \in setCalls


\* ---------------------------------------------------------------- C14
\* The entry of key k changes in this step, and the new entry is the value
\* an invocation of fn for k returned with a nil error to the process, a
\* write-back or a refresh, that writes it.
WritesComputedValue(k) ==
    \E c \in Callers :
        /\ key[c] = k
        /\ \/ /\ wb[c] = "pending"
              /\ wb'[c] = "ok"
              /\ fetched[c].err = NoErr
              /\ fetched[c].val \in Values
              /\ store'[k] = fetched[c].val
           \/ /\ rpc[c] = "setting"
              /\ rpc'[c] = "done"
              /\ fnCalls[Bg(c)] = 1
              /\ call[Bg(c)].err = NoErr
              /\ call[Bg(c)].val \in Values
              /\ store'[k] = call[Bg(c)].val

\* C14: every entry is absent, the initial value or a value of a compute
\* function, never the zero or a partial value, and an entry only ever
\* changes to the value a successful compute for its key has just returned.
C14_StoreHoldsOnlyComputedValues ==
    /\ [](\A k \in Keys : store[k] \in {Absent, OldValue} \cup Values)
    /\ [][\A k \in Keys : store'[k] # store[k] => WritesComputedValue(k)]_vars

\* After a hit, a failed compute of a miss-fill and a refresh for the same
\* key, the entry is the value the refresh computed.
C14_Witness ==
    \E c, d \in Callers :
        /\ key[c] = key[d]
        /\ probe[c] = "hit"
        /\ rpc[c] = "done"
        /\ Bg(c) \in setCalls
        /\ fetched[d].err = ErrCompute
        /\ store[key[c]] \in Values


\* ---------------------------------------------------------------- C15
\* C15: with the context of the caller that spawned it done, a refresh can
\* still enter the group, have fn return a value and store it, and a
\* write-back can still store the computed value; no refresh ever ends with
\* the caller's cancellation error.
C15_DetachedTasksIgnoreCallerContext ==
    /\ \A c \in Callers :
        ctx[c] = "canceled" =>
            /\ rpc[c] = "sleeping" => ENABLED RefreshEnter(c)
            /\ rpc[c] = "computing" =>
                ENABLED (RefreshCompute(c) /\ rpc'[c] = "setting")
            /\ rpc[c] = "setting" =>
                ENABLED (RefreshSet(c) /\ store'[key[c]] = call[Bg(c)].val)
            /\ wb[c] = "pending" =>
                ENABLED (WriteBack(c) /\ wb'[c] = "ok"
                            /\ store'[key[c]] = fetched[c].val)
    /\ \A c \in Callers : call[Bg(c)].err # ErrCanceled

\* The context of a caller that hit and the context of a caller that missed
\* are both done, and yet the refresh of the first and the write-back of the
\* second have stored the values they computed.
C15_Witness ==
    \E c, d \in Callers :
        /\ ctx[c] = "canceled"
        /\ probe[c] = "hit"
        /\ rpc[c] = "done"
        /\ fnCalls[Bg(c)] = 1
        /\ Bg(c) \in setCalls
        /\ ctx[d] = "canceled"
        /\ wb[d] = "ok"
        /\ fetched[d].err = NoErr


\* ---------------------------------------------------------------- C16
\* C16: a caller that joined a call registered with another type parameter
\* returns the zero value with an error: the type-mismatch error when the
\* computation produced a value, the computation's error otherwise.
C16_TypeMismatchIsAnErrorNeverAValue ==
    \A c \in MissDone :
        (joined[Fg(c)] # Fg(c) /\ typ[joined[Fg(c)]] # typ[c]) =>
            /\ result[c].val = ZeroValue
            /\ result[c].err # NoErr
            /\ fetched[joined[Fg(c)]].err = NoErr =>
                result[c].err = ErrTypeMismatch
            /\ fetched[joined[Fg(c)]].err # NoErr =>
                result[c].err = fetched[joined[Fg(c)]].err

\* A caller joined a computation of another type that succeeded: the leader
\* holds the value, the joiner the type-mismatch error.
C16_Witness ==
    \E c, d \in Callers :
        /\ typ[c] # typ[d]
        /\ joined[Fg(d)] = Fg(c)
        /\ pc[c] = "done"
        /\ pc[d] = "done"
        /\ result[c].err = NoErr
        /\ result[c].val \in Values
        /\ result[d] = [val |-> ZeroValue, err |-> ErrTypeMismatch]


\* ---------------------------------------------------------------- C17
\* C17: whether the logger argument is nil or not, no call panics, a hit
\* returns the cached value and spawns the refresh, a miss goes through
\* sf.Do and its leader returns what fn returned and spawns the write-back
\* on success, and only a refresh or write-back that computed calls c.Set.
C17_NilLoggerIsReplacedByNoOp ==
    \A c \in Callers :
        /\ pc[c] # "panic"
        /\ pc[c] # "start" => logged[c] = ProbeLog(probe[c])
        /\ (pc[c] = "done" /\ probe[c] = "hit") =>
            /\ result[c] = [val |-> cached[c], err |-> NoErr]
            /\ rpc[c] # "none"
            /\ joined[Fg(c)] = NoProc
        /\ (pc[c] = "done" /\ probe[c] # "hit") => c \in MissDone
        /\ c \in LedDone =>
            /\ result[c] = fetched[c]
            /\ (fetched[c].err = NoErr) = (wb[c] # "none")
        /\ Fg(c) \in setCalls => wb[c] \in {"ok", "failed"}
        /\ Bg(c) \in setCalls => (rpc[c] = "done" /\ fnCalls[Bg(c)] = 1)

\* With a nil logger, a hit has been served and refreshed and a miss has
\* been computed and written back.
C17_Witness ==
    /\ loggerArg = "nil"
    /\ \E c, d \in Callers :
        /\ pc[c] = "done"
        /\ probe[c] = "hit"
        /\ result[c] = [val |-> OldValue, err |-> NoErr]
        /\ rpc[c] = "done"
        /\ Bg(c) \in setCalls
        /\ pc[d] = "done"
        /\ probe[d] = "notfound"
        /\ result[d].err = NoErr
        /\ wb[d] = "ok"


\* ---------------------------------------------------------------- C18
\* C18: the status a handler returns for a failed FindAndCache is Canceled
\* when its context is cancelled and DeadlineExceeded when its deadline has
\* passed, whatever the error; with a live context it is NotFound for an
\* error that is ErrNoRatings, else Internal "database error" for one that
\* is ErrStorageFailure, else Internal; Canceled and DeadlineExceeded are
\* returned for no other reason.
C18_HandleErrorPrecedence ==
    (hpc = "responded" /\ herr # NoError) =>
        /\ hctx = ErrCanceled => rsp.code = "Canceled"
        /\ hctx = ErrDeadline => rsp.code = "DeadlineExceeded"
        /\ hctx = CtxLive =>
            /\ ErrorsIs(herr, "ErrNoRatings") => rsp.code = "NotFound"
            /\ (~ErrorsIs(herr, "ErrNoRatings") /\ ErrorsIs(herr, "ErrStorageFailure"))
                => rsp = [code |-> "Internal", msg |-> "database error"]
            /\ (~ErrorsIs(herr, "ErrNoRatings") /\ ~ErrorsIs(herr, "ErrStorageFailure"))
                => /\ rsp.code = "Internal"
                   /\ rsp.msg = req.handler \o " failed: " \o herr.text
        /\ (rsp.code = "Canceled") = (hctx = ErrCanceled)
        /\ (rsp.code = "DeadlineExceeded") = (hctx = ErrDeadline)
        /\ rsp.code \in {"Canceled", "DeadlineExceeded", "NotFound", "Internal"}

\* A handler whose context was cancelled answered Canceled although the
\* compute error was ErrNoRatings.
C18_Witness ==
    /\ hpc = "responded"
    /\ hctx = ErrCanceled
    /\ ErrorsIs(herr, "ErrNoRatings")
    /\ rsp = [code |-> "Canceled", msg |-> "request canceled"]


\* ---------------------------------------------------------------- C19
\* C19 as stated: a request whose end date is before its start date is
\* answered InvalidArgument with no c.Get and no scoring-service call made,
\* and a request whose dates are equal passes the validation.
C19_InvertedRangeRejectedEqualAccepted ==
    hpc # "received" =>
        /\ Before(req.end, req.start) =>
            /\ hpc = "responded"
            /\ rsp.code = "InvalidArgument"
            /\ hcalls = [get |-> 0, scoring |-> 0]
        /\ req.end = req.start => rsp.code # "InvalidArgument"

\* C19 amended: as stated, but equal dates pass the validation only when
\* they are not the zero instant, which the validation takes for a missing
\* date; a request that passed reaches FindAndCache.
C19_InvertedRangeRejectedEqualNonZeroAccepted ==
    hpc # "received" =>
        /\ Before(req.end, req.start) =>
            /\ hpc = "responded"
            /\ rsp.code = "InvalidArgument"
            /\ herr = NoError
            /\ hcalls = [get |-> 0, scoring |-> 0]
        /\ (req.end = req.start /\ ~IsZero(req.start)) =>
            /\ rsp.code # "InvalidArgument"
            /\ hpc \in {"returned", "responded"} => hcalls.get = 1

\* A request for January 31 to January 1 has been answered InvalidArgument
\* with nothing probed or computed.
C19_Witness ==
    /\ hpc = "responded"
    /\ req.start = Jan31
    /\ req.end = Jan01
    /\ rsp = [code |-> "InvalidArgument", msg |-> "end date must be after start date"]
    /\ hcalls = [get |-> 0, scoring |-> 0]


\* ---------------------------------------------------------------- C20
\* C20: the handlers hold the TTL they were constructed with when it is
\* positive and the default of 10 minutes otherwise, so the ttl of every
\* FindAndCache call they make is positive.
C20_ConstructedTTLIsPositive ==
    /\ defaultCacheDuration = 10 * 60
    /\ cacheTTL # 0 =>
        /\ ttlArg > 0 => cacheTTL = ttlArg
        /\ ttlArg <= 0 => cacheTTL = defaultCacheDuration
    /\ setSite # "none" => cacheTTL > 0

\* Handlers constructed with a negative TTL have made a call whose write
\* was issued for the default TTL.
C20_Witness ==
    /\ ttlArg < 0
    /\ cacheTTL = defaultCacheDuration
    /\ setSite = "miss"
    /\ setTTL >= defaultCacheDuration - jitterOffset


\* ---------------------------------------------------------------- C21
\* The UTC calendar date of a time, as the count of whole days from the
\* epoch to its instant.
UTCDate(t) == t.at \div 24

\* C21: two requests get the same key exactly when they go to the same
\* handler and their start instants fall on the same UTC day and so do their
\* end instants; the key is the handler's prefix followed by two dates.
C21_SameKeyIffSamePrefixAndUTCDates ==
    kout # <<>> =>
        /\ (kout[1] = kout[2]) =
            (/\ kin[1].handler = kin[2].handler
             /\ UTCDate(kin[1].start) = UTCDate(kin[2].start)
             /\ UTCDate(kin[1].end) = UTCDate(kin[2].end))
        /\ kin[1].handler # kin[2].handler => kout[1] # kout[2]
        /\ (kin[1].start = At(Jan01 + 25, -5) /\ kin[1].end = At(Jan31, 0)) =>
            kout[1] = KeyPrefix(kin[1].handler) \o ":2025-01-02:2025-01-31"

\* A request at noon UTC and one at 23:00 UTC of the same day got the same
\* key, and so did one given in New York time and one given in UTC.
C21_Witness ==
    /\ kout # <<>>
    /\ kin[1].start = At(Jan01Noon, 0)
    /\ kin[2].start = At(Jan01 + 23, 0)
    /\ kin[1].end = At(Jan01 + 25, -5)
    /\ kin[2].end = At(Jan01 + 25, 0)
    /\ kout[1] = kout[2]
    /\ kout[1] = "grpc:scores_by_ticket:2025-01-01:2025-01-02"


\* ---------------------------------------------------------------- C22
\* C22 as stated: every call of Close that follows one that returned no
\* error returns no error either.
C22_CloseIsIdempotent ==
    \A i, j \in 1..Len(closeRet) :
        (i < j /\ closeRet[i] = NoErr) => closeRet[j] = NoErr


\* ---------------------------------------------------------------- C23
\* C23: the current period is queried first; when that query fails, the
\* previous period is not queried and the wrapped error is returned with an
\* empty PeriodChange; a previous period without ratings gives success with
\* previous score 0 and change 100; any other error of the previous query
\* is returned wrapped with an empty PeriodChange.
C23_PeriodChangeErrorHandling ==
    ppc = "done" =>
        /\ pqueries[1] = "current"
        /\ pin.cur.err # NoError =>
            /\ pqueries = <<"current">>
            /\ pout = [value |-> NoChange, err |-> Wrap("current score", pin.cur.err)]
        /\ pin.cur.err = NoError =>
            /\ pqueries = <<"current", "previous">>
            /\ ErrorsIs(pin.prev.err, "ErrNoRatings") =>
                pout = [value |-> PeriodChange(pin.cur.score, 0, 100), err |-> NoError]
            /\ (pin.prev.err # NoError /\ ~ErrorsIs(pin.prev.err, "ErrNoRatings")) =>
                /\ pout.value = NoChange
                /\ pout.err # NoError
                /\ pout.err.is = pin.prev.err.is
            /\ pin.prev.err = NoError =>
                /\ pout.err = NoError
                /\ pout.value.current = pin.cur.score
                /\ pout.value.previous = pin.prev.score

\* The current period scored 80 and the previous one had no ratings: the
\* call succeeded with previous score 0 and change 100.
C23_Witness ==
    /\ ppc = "done"
    /\ pin.cur = [score |-> 80, err |-> NoError]
    /\ ErrorsIs(pin.prev.err, "ErrNoRatings")
    /\ pqueries = <<"current", "previous">>
    /\ pout = [value |-> PeriodChange(80, 0, 100), err |-> NoError]


\* ---------------------------------------------------------------- C24
\* Callers whose computation for key k, led by themselves, has completed.
CompletedLeaders(k) ==
    {d \in Callers : key[d] = k /\ pc[d] = "done" /\ joined[Fg(d)] = Fg(d)}

\* C24: when a caller on the miss path enters the group for a key for which
\* a computation has completed and none is in flight, it registers a call of
\* its own and invokes the compute function once: it does not wait on the
\* completed call and is handed nothing of its result.
C24_CompletedCallIsNotReused ==
    [][\A c \in Callers :
        (/\ pc[c] = "miss"
         /\ pc'[c] # "miss"
         /\ CompletedLeaders(key[c]) # {}
         /\ \A e \in Callers : ~(key[e] = key[c] /\ pc[e] = "computing"))
        => /\ pc'[c] = "computing"
           /\ joined'[Fg(c)] = Fg(c)
           /\ fnCalls'[Fg(c)] = fnCalls[Fg(c)] + 1
           /\ call'[Fg(c)] = NewCall(typ[c])
           /\ sfm'[key[c]] = Fg(c)
           /\ result'[c] = NoResult]_vars

\* A caller computes for a key on a call of its own while another caller's
\* computation for that key has completed.
C24_Witness ==
    \E c \in Callers :
        /\ pc[c] = "computing"
        /\ fnCalls[Fg(c)] = 1
        /\ call[Fg(c)].state = "active"
        /\ \E d \in CompletedLeaders(key[c]) :
            /\ d # c
            /\ fnCalls[Fg(d)] = 1
            /\ result[d].err = NoErr


\* ---------------------------------------------------------------- C25
\* C25: a call has a refresh task exactly when its probe hit; a call on the
\* miss path (not found, or a failed probe) has none, so nothing computes or
\* writes in the background for it; the one task of a hit invokes the
\* compute function at most once.
C25_RefreshStartedIffProbeHit ==
    \A c \in Callers :
        /\ rpc[c] # "none" <=> probe[c] = "hit"
        /\ probe[c] \in {"notfound", "error"} =>
            /\ fnCalls[Bg(c)] = 0
            /\ Bg(c) \notin setCalls
            /\ joined[Bg(c)] = NoProc
        /\ fnCalls[Bg(c)] <= 1

\* One call hit and its refresh task has computed, another call took the
\* miss path, has returned and has no refresh task.
C25_Witness ==
    \E c, d \in Callers :
        /\ probe[c] = "hit"
        /\ rpc[c] = "done"
        /\ fnCalls[Bg(c)] = 1
        /\ probe[d] \in {"notfound", "error"}
        /\ pc[d] = "done"
        /\ rpc[d] = "none"


\* ---------------------------------------------------------------- C26
\* C26: the foreground path of a call invokes the compute function at most
\* once; a call whose compute function returned an error has invoked it
\* exactly once and returns that error, and a call that joined another
\* call's computation has not invoked it.
C26_NoRetryOfCompute ==
    \A c \in Callers :
        /\ fnCalls[Fg(c)] <= 1
        /\ (pc[c] = "done" /\ joined[Fg(c)] = Fg(c) /\ fetched[c].err # NoErr) =>
            /\ fnCalls[Fg(c)] = 1
            /\ result[c] = fetched[c]
        /\ (joined[Fg(c)] # NoProc /\ joined[Fg(c)] # Fg(c)) => fnCalls[Fg(c)] = 0

\* A call has returned the error of its compute function, invoked once, and
\* a call that waited on it got the error without invoking anything.
C26_Witness ==
    \E c, d \in Callers :
        /\ pc[c] = "done"
        /\ joined[Fg(c)] = Fg(c)
        /\ fetched[c].err = ErrCompute
        /\ result[c].err = ErrCompute
        /\ fnCalls[Fg(c)] = 1
        /\ joined[Fg(d)] = Fg(c)
        /\ d # c
        /\ pc[d] = "done"
        /\ result[d].err = ErrCompute
        /\ fnCalls[Fg(d)] = 0


\* ---------------------------------------------------------------- C27
\* C27: a pending Set, of a write-back or of a refresh, can execute next
\* whatever the entry holds and whichever other Set for the key is pending
\* or has executed, and when it succeeds the entry is its value and no
\* other entry changes: the entry is the value of the last Set.
C27_LastSetWins ==
    \A c \in Callers :
        /\ wb[c] = "pending" =>
            ENABLED (/\ WriteBack(c)
                     /\ wb'[c] = "ok"
                     /\ store' = [store EXCEPT ![key[c]] = fetched[c].val])
        /\ rpc[c] = "setting" =>
            ENABLED (/\ RefreshSet(c)
                     /\ store' = [store EXCEPT ![key[c]] = call[Bg(c)].val])

\* A miss-fill has stored its value for a key and a refresh for the same
\* key stands before its Set with a different value.
C27_Witness ==
    \E c, d \in Callers :
        /\ c # d
        /\ key[c] = key[d]
        /\ rpc[c] = "setting"
        /\ wb[d] = "ok"
        /\ store[key[d]] = fetched[d].val
        /\ call[Bg(c)].val \in Values \ {store[key[c]]}


\* ---------------------------------------------------------------- C28
\* C28: a ttl argument that is zero or negative is the expiration c.Set
\* receives, at the write-back and at the refresh; a positive one gets a
\* jitter of -15 to +14 seconds.
C28_NonPositiveTTLIsNotJittered ==
    setSite # "none" =>
        /\ ttlArg <= 0 => setTTL = ttlArg
        /\ ttlArg > 0 =>
            /\ setTTL >= ttlArg - jitterOffset
            /\ setTTL < ttlArg - jitterOffset + jitterSpan

\* A refresh has called c.Set with the negative ttl it was given.
C28_Witness ==
    /\ setSite = "refresh"
    /\ ttlArg < 0
    /\ setTTL = ttlArg


\* ---------------------------------------------------------------- C29
\* C29: every call returns, and a call that waited on another caller's
\* computation has returned with the pair that computation produced.
C29_EveryCallReturns ==
    /\ \A c \in Callers : <>(pc[c] = "done")
    /\ [](\A c, l \in Callers :
            (pc[c] = "done" /\ c # l /\ joined[Fg(c)] = Fg(l))
                => result[c] = fetched[l])

\* A caller that joined another caller's computation while its own context
\* was done has returned with the pair of that computation.
C29_Witness ==
    \E c, l \in Callers :
        /\ c # l
        /\ joined[Fg(c)] = Fg(l)
        /\ pc[c] = "done"
        /\ pc[l] = "done"
        /\ ctx[c] = "canceled"
        /\ result[c] = fetched[l]
        /\ result[c].val \in Values

\* ---------------------------------------------------------------- C30
\* C30: every refresh task that was started ends, whether it ran the compute
\* function or joined the refresh in flight for its key.
C30_EveryRefreshTerminates ==
    \A c \in Callers : (rpc[c] # "none") ~> (rpc[c] = "done")

\* A refresh that joined the refresh in flight for its key has ended, and
\* so has the one it joined.
C30_Witness ==
    \E c, l \in Callers :
        /\ c # l
        /\ joined[Bg(c)] = Bg(l)
        /\ rpc[c] = "done"
        /\ rpc[l] = "done"
        /\ fnCalls[Bg(c)] = 0
        /\ fnCalls[Bg(l)] = 1

\* ---------------------------------------------------------------- C31
\* C31 as stated: once App.Run has closed the cache, no write-back and no
\* refresh calls c.Set.
C31_NoSetAfterClose ==
    [][closed => setCalls' = setCalls]_vars


\* ---------------------------------------------------------------- C32
\* C32 as stated: a request whose start or end timestamp is not set is
\* answered InvalidArgument "start and end dates are required" with nothing
\* probed and nothing computed.
C32_AbsentDateIsRejected ==
    (hpc # "received" /\ (~req.start.set \/ ~req.end.set)) =>
        /\ hpc = "responded"
        /\ rsp = [code |-> "InvalidArgument", msg |-> "start and end dates are required"]
        /\ hcalls = [get |-> 0, scoring |-> 0]


\* ---------------------------------------------------------------- C33
\* C33 as stated: a call of the pkg/cache wrapper whose probe did not hit
\* and whose fetch function returned a value returns that value, whatever
\* cache.Set returned.
C33_WrapperReturnsValueWhateverTheSet ==
    \A c \in Callers :
        (pc[c] = "done" /\ probe[c] # "hit" /\ fetched[c].err = NoErr)
            => result[c] = fetched[c]


\* ---------------------------------------------------------------- C34
\* C34 as stated: database.New makes at most RetryAttempts attempts and
\* returns the pool of the first one that succeeds; the delays before the
\* further attempts grow exponentially (each is the one before it times a
\* constant factor above 1); no delay follows the last attempt; when every
\* attempt failed an error is returned.
C34_RetryWithExponentialBackoff ==
    db.pc = "done" =>
        /\ Len(db.tried) <= db.RetryAttempts
        /\ db.ret = "pool" <=>
            (db.tried # <<>> /\ db.tried[Len(db.tried)] = "ok")
        /\ \A n \in 1..(Len(db.tried) - 1) : db.tried[n] # "ok"
        /\ db.ret = "error" => Len(db.tried) = db.RetryAttempts
        /\ Len(db.waits) <= Len(db.tried)
        /\ Len(db.waits) < db.RetryAttempts \/ db.RetryAttempts = 0
        /\ \A n \in 2..Len(db.waits) : db.waits[n] > db.waits[n - 1]
        /\ \A n \in 2..(Len(db.waits) - 1) :
            db.waits[n] * db.waits[n] = db.waits[n - 1] * db.waits[n + 1]


\* ---------------------------------------------------------------- C35
\* Callers whose miss-fill, and callers whose refresh task, is inside the
\* compute function for base key k.
MissFillComputing(k) == {c \in Callers : key[c] = k /\ pc[c] = "computing"}
RefreshComputing(k) == {c \in Callers : key[c] = k /\ rpc[c] = "computing"}

\* C35: for each base key at most one miss-fill and at most one refresh are
\* inside the compute function, so at most two invocations for the key run
\* at a time.
C35_AtMostTwoComputesPerBaseKey ==
    \A k \in Keys :
        /\ Cardinality(MissFillComputing(k)) <= 1
        /\ Cardinality(RefreshComputing(k)) <= 1
        /\ Cardinality(MissFillComputing(k)) + Cardinality(RefreshComputing(k)) <= 2

\* A miss-fill and a refresh compute for the same base key at the same time.
C35_Witness ==
    \E k \in Keys :
        /\ Cardinality(MissFillComputing(k)) = 1
        /\ Cardinality(RefreshComputing(k)) = 1


\* ---------------------------------------------------------------- C36
\* C36: the compute function of a miss-fill fails with the context's error
\* only when the context of the caller that started it is done, and then
\* every caller that joined the computation returns that error, whatever
\* its own context is.
C36_LeaderContextGovernsTheComputation ==
    \A l \in Callers :
        fetched[l].err = ErrCanceled =>
            /\ ctx[l] = "canceled"
            /\ result[l] = [val |-> ZeroValue, err |-> ErrCanceled]
            /\ \A c \in Callers \ {l} :
                (joined[Fg(c)] = Fg(l) /\ pc[c] = "done") =>
                    result[c] = [val |-> ZeroValue, err |-> ErrCanceled]

\* A caller whose context is live has returned the cancellation error of a
\* computation started by a caller whose context was cancelled.
C36_Witness ==
    \E l, c \in Callers :
        /\ l # c
        /\ joined[Fg(c)] = Fg(l)
        /\ fetched[l].err = ErrCanceled
        /\ ctx[l] = "canceled"
        /\ ctx[c] = "live"
        /\ pc[c] = "done"
        /\ result[c].err = ErrCanceled


\* ---------------------------------------------------------------- C37
\* The step is a c.Set attempt of process p, made for a value that p's own
\* invocation of the compute function returned.
SetsOwnComputedValue(p) ==
    /\ joined[p] = p
    /\ fnCalls[p] = 1
    /\ IF p \in Callers
        THEN /\ wb[p] = "pending"
             /\ fetched[p].err = NoErr
             /\ fetched[p].val \in Values
        ELSE /\ rpc[CallerOf(p)] = "setting"
             /\ call[p].err = NoErr
             /\ call[p].val \in Values

\* C37: a process attempts c.Set only for a value its own invocation of the
\* compute function returned, and at most once; a successful foreground
\* invocation has its one write-back pending or attempted, a successful
\* refresh invocation ends with its one attempt; a process that joined a
\* call never attempts a write; so the attempts never outnumber the
\* invocations.
C37_OneSetPerSuccessfulCompute ==
    /\ [](/\ \A p \in setCalls : joined[p] = p /\ fnCalls[p] = 1
          /\ \A c \in Callers :
                /\ (wb[c] # "none") <=>
                    (joined[Fg(c)] = Fg(c) /\ fetched[c].err = NoErr)
                /\ (wb[c] \in {"ok", "failed"}) <=> (Fg(c) \in setCalls)
                /\ rpc[c] = "setting" => Bg(c) \notin setCalls
          /\ \A p \in Procs : (joined[p] # NoProc /\ joined[p] # p) => p \notin setCalls
          /\ Cardinality(setCalls) <= Cardinality({p \in Procs : fnCalls[p] > 0}))
    /\ [][/\ \A p \in setCalls' \ setCalls : SetsOwnComputedValue(p)
          /\ \A c \in Callers :
                (rpc[c] = "setting" /\ rpc'[c] # "setting") => Bg(c) \in setCalls'
          /\ setCalls \subseteq setCalls']_vars

\* A miss-fill computed a value and attempted its one write while a caller
\* that shared the value has returned without any write of its own.
C37_Witness ==
    \E l, c \in Callers :
        /\ l # c
        /\ joined[Fg(c)] = Fg(l)
        /\ pc[c] = "done"
        /\ result[c].err = NoErr
        /\ wb[c] = "none"
        /\ wb[l] \in {"ok", "failed"}
        /\ setCalls = {Fg(l)}


\* ---------------------------------------------------------------- C38
\* C38: the probe of a call writes nothing; a refresh whose compute function
\* failed, and a refresh that joined another one, end without a write; and
\* the entry of a key that every call so far has hit changes only in the
\* Set of a refresh, to the value that refresh computed.
C38_HitPathWritesOnlyThroughRefresh ==
    [][/\ \A c \in Callers :
            /\ (pc[c] = "start" /\ pc'[c] # "start") =>
                (store' = store /\ setCalls' = setCalls)
            /\ (rpc[c] \in {"computing", "waiting"} /\ rpc'[c] = "done") =>
                (store' = store /\ setCalls' = setCalls)
       /\ \A k \in Keys :
            (/\ store'[k] # store[k]
             /\ \A c \in Callers : key[c] = k => probe[c] = "hit")
            => \E c \in Callers :
                /\ key[c] = k
                /\ rpc[c] = "setting"
                /\ rpc'[c] = "done"
                /\ call[Bg(c)].err = NoErr
                /\ store'[k] = call[Bg(c)].val]_vars

\* Two calls hit the same key; the refresh of one failed or was dropped and
\* wrote nothing, the refresh of the other replaced the entry.
C38_Witness ==
    \E c, d \in Callers :
        /\ c # d
        /\ key[c] = key[d]
        /\ probe[c] = "hit"
        /\ probe[d] = "hit"
        /\ rpc[c] = "done"
        /\ rpc[d] = "done"
        /\ setCalls = {Bg(c)}
        /\ store[key[c]] \in Values



\* C39: through the handlers the type-mismatch error cannot occur. Requests
\* with the same key go to one handler and so expect one value type; no key
\* normalizeKey makes is the refresh key of another; a caller waiting on a
\* call expects the type the call's leader registered; and FindAndCache
\* never returns the type-mismatch error.
C39_TypeMismatchUnreachableThroughHandlers ==
    /\ \A c \in Callers : result[c].err # ErrTypeMismatch
    /\ \A c \in Callers :
        pc[c] = "waiting" => call[joined[Fg(c)]].typ = ValueType(kin[c].handler)
    /\ \A c, d \in Callers :
        /\ kout[c] = kout[d] =>
            /\ kin[c].handler = kin[d].handler
            /\ ValueType(kin[c].handler) = ValueType(kin[d].handler)
        /\ kin[c].handler # kin[d].handler =>
            ValueType(kin[c].handler) # ValueType(kin[d].handler)
        /\ kout[c] # RefreshKey(kout[d])
        /\ (key[c] # "none" /\ key[d] # "none") =>
            ((key[c] = key[d]) = (kout[c] = kout[d]))

\* Requests for the same dates to two handlers with different value types are
\* being computed at the same time, each as the leader of its own call.
C39_Witness ==
    \E c, d \in Callers :
        /\ kin[c].handler # kin[d].handler
        /\ ValueType(kin[c].handler) # ValueType(kin[d].handler)
        /\ kin[c].start = kin[d].start
        /\ kin[c].end = kin[d].end
        /\ pc[c] = "computing"
        /\ pc[d] = "computing"
        /\ sfm[key[c]] = Fg(c)
        /\ sfm[key[d]] = Fg(d)

\* C40: a value a handler gets from FindAndCache was computed by the closure
\* of a request to the same handler whose start and end fall on the same UTC
\* dates as its own, though possibly at other instants.
C40_ValueComputedForSameEndpointAndUTCDates ==
    \A c \in Callers :
        (pc[c] = "done" /\ result[c].err = NoErr) =>
            \E d \in Callers :
                /\ result[c].val = OwnValue(d)
                /\ fnCalls[Fg(d)] > 0 \/ fnCalls[Bg(d)] > 0
                /\ kin[d].handler = kin[c].handler
                /\ UTCDate(kin[d].start) = UTCDate(kin[c].start)
                /\ UTCDate(kin[d].end) = UTCDate(kin[c].end)

\* A request starting at 12:00 was served, from the store, the value another
\* caller computed for the start 00:00 of the same day; it computed nothing.
C40_Witness ==
    \E c, d \in Callers :
        /\ c # d
        /\ OwnValue(c) # OwnValue(d)
        /\ kin[c].start.at # kin[d].start.at
        /\ UTCDate(kin[c].start) = UTCDate(kin[d].start)
        /\ pc[c] = "done"
        /\ probe[c] = "hit"
        /\ result[c] = [val |-> OwnValue(d), err |-> NoErr]
        /\ fnCalls[Fg(c)] = 0
        /\ fnCalls[Bg(c)] = 0
        /\ fnCalls[Fg(d)] = 1

====
